---- MODULE Spec2Model ----
(***************************************************************************)
(* A model of MockMCPServer: the Lambda authorizer (src/authorizer), the   *)
(* server router and its handlers (src/server) and the MCP protocol engine *)
(* (src/server/mcp_server).                                                *)
(*                                                                         *)
(* Text.  A Python str is modelled as a sequence of symbols.  A symbol is  *)
(* a TLA+ string that stands for a fixed, non-empty run of characters; in  *)
(* a text the code splits or matches on, the separators ("/" in a path or  *)
(* an ARN, " " in a header, "." in a JWT, the "_" that ends the token      *)
(* prefix) and the wildcard "*" are symbols of their own.  So              *)
(* "/servers/s1/mcp" is <<"/", "servers", "/", "s1", "/", "mcp">>, and     *)
(* split, strip, startswith and equality are computed on the sequence as   *)
(* Python computes them on the characters.  Python's None is the reserved  *)
(* one-symbol text None.                                                   *)
(***************************************************************************)
EXTENDS Integers, Sequences, FiniteSets, TLC

VARIABLES
    store,            \* the DynamoDB session table: session_id -> item or Absent
    active_handlers,  \* MCPServerHandler.active_handlers: session_id -> engine or NoHandler
    issued_ids,       \* session ids TokenGenerator.generate_id has returned so far
    auth_cache,       \* the gateway's cached authorizer results (one per bearer token)
    entry,            \* which authorizer entry point the deployment invokes
    now,              \* wall-clock time, in abstract ticks
    last              \* the last operation: its inputs, what it called, its response

vars == <<store, active_handlers, issued_ids, auth_cache, entry, now, last>>

----------------------------------------------------------------------------
(* Bounds of the model.                                                    *)

MaxSessions == 2
MaxTime == 2
MaxCached == 1

----------------------------------------------------------------------------
(* Python text operations.                                                 *)

None == <<"None">>

Falsy(x) == x = None \/ x = <<>>

StartsWith(s, p) == Len(s) >= Len(p) /\ SubSeq(s, 1, Len(p)) = p

\* str.split(sep) for a one-symbol separator: always at least one part.
RECURSIVE SplitFrom(_, _, _, _)
SplitFrom(s, sep, cur, acc) ==
    IF s = <<>> THEN Append(acc, cur)
    ELSE IF Head(s) = sep THEN SplitFrom(Tail(s), sep, <<>>, Append(acc, cur))
    ELSE SplitFrom(Tail(s), sep, Append(cur, Head(s)), acc)

Split(s, sep) == SplitFrom(s, sep, <<>>, <<>>)

\* sep.join(parts)
RECURSIVE Join(_, _)
Join(parts, sep) ==
    IF parts = <<>> THEN <<>>
    ELSE IF Len(parts) = 1 THEN parts[1]
    ELSE parts[1] \o <<sep>> \o Join(Tail(parts), sep)

\* str.strip(ch)
RECURSIVE LStrip(_, _)
LStrip(s, ch) == IF s # <<>> /\ Head(s) = ch THEN LStrip(Tail(s), ch) ELSE s

RECURSIVE RStrip(_, _)
RStrip(s, ch) ==
    IF s # <<>> /\ s[Len(s)] = ch THEN RStrip(SubSeq(s, 1, Len(s) - 1), ch) ELSE s

Strip(s, ch) == RStrip(LStrip(s, ch), ch)

\* [x for x in parts if x]
RECURSIVE NonEmptyParts(_)
NonEmptyParts(parts) ==
    IF parts = <<>> THEN <<>>
    ELSE IF Head(parts) = <<>> THEN NonEmptyParts(Tail(parts))
    ELSE <<Head(parts)>> \o NonEmptyParts(Tail(parts))

Take(s, n) == SubSeq(s, 1, IF Len(s) < n THEN Len(s) ELSE n)

\* hashlib.sha256(text.encode()).hexdigest(): an injective digest (no collisions).
Sha256Hex(text) == <<"sha256(">> \o text \o <<")">>

----------------------------------------------------------------------------
(* The values the model draws its inputs from.                             *)

Users == {<<"u1">>, <<"u2">>}

SidSymbols == <<"s1", "s2", "s3", "s4">>

\* the ids secrets.token_urlsafe can return (generate_id draws a fresh one)
SessionIdPool == {<<SidSymbols[i]>> : i \in 1..MaxSessions}

\* the random parts secrets.token_urlsafe can put into a token
RandomParts == {<<"r1">>, <<"r2">>}

Absent == [present |-> FALSE]

NoHandler == [loaded |-> FALSE]

ACTIVE == <<"active">>

INACTIVE == <<"inactive">>

\* table.get_item(Key={'session_id': session_id}): the item, or no 'Item'
GetItem(tbl, session_id) ==
    IF session_id \in DOMAIN tbl THEN tbl[session_id] ELSE Absent

----------------------------------------------------------------------------
(* src/server/mcp_server/utils/token_generator.py                          *)

M2M_TOKEN_PREFIX == <<"mcp_m2m">>

M2M_TOKEN_DETERMINISTIC_LENGTH == 16

generate_m2m_token(session_id, user_id, random_part) ==
    M2M_TOKEN_PREFIX \o <<"_">> \o random_part \o <<"_">>
        \o Take(Sha256Hex(session_id \o <<":">> \o user_id), M2M_TOKEN_DETERMINISTIC_LENGTH)

hash_token(token) == Sha256Hex(token)

----------------------------------------------------------------------------
(* src/authorizer: utils.py, m2m_validator.py, policy_generator.py,        *)
(* cognito_validator.py, token_handler.py                                  *)

\* for i, part in enumerate(arn_parts): the first i (1-based here) at which
\* part == word and arn_parts[i + 2] == 'mcp'; 0 when there is none
RECURSIVE FindSessionIndex(_, _, _)
FindSessionIndex(arn_parts, word, i) ==
    IF i > Len(arn_parts) THEN 0
    ELSE IF arn_parts[i] = word /\ i + 2 <= Len(arn_parts) /\ arn_parts[i + 2] = <<"mcp">>
         THEN i
         ELSE FindSessionIndex(arn_parts, word, i + 1)

extract_session_id_from_arn(method_arn) ==
    LET arn_parts == Split(method_arn, "/")
        i == FindSessionIndex(arn_parts, <<"servers">>, 1)
    IN  IF i = 0 THEN None ELSE arn_parts[i + 1]

validate_m2m_token_nohash(token, session_id, tbl, db_ok) ==
    IF ~db_ok THEN None
    ELSE LET session == GetItem(tbl, session_id) IN
         IF ~session.present THEN None
         ELSE IF session.status # ACTIVE THEN None
         ELSE session.user_id

\* a validator that would refuse the token of a session past its expires_at
validate_m2m_token_expiring(token, session_id, tbl, db_ok) ==
    IF ~db_ok THEN None
    ELSE LET session == GetItem(tbl, session_id) IN
         IF ~session.present THEN None
         ELSE IF session.status # ACTIVE THEN None
         ELSE IF Falsy(session.m2m_token_hash) \/ Sha256Hex(token) # session.m2m_token_hash
              THEN None
         ELSE IF session.expires_at < now THEN None
         ELSE session.user_id

\* db_ok = FALSE: the table lookup raises, which the except clause turns into None
validate_m2m_token(token, session_id, tbl, db_ok) ==
    IF ~db_ok THEN None
    ELSE LET session == GetItem(tbl, session_id) IN
         IF ~session.present THEN None
         ELSE IF session.status # ACTIVE THEN None
         ELSE IF Falsy(session.m2m_token_hash) \/ Sha256Hex(token) # session.m2m_token_hash
              THEN None
         ELSE session.user_id

\* '/'.join(arn_parts[:2])
BaseArn(method_arn) == Join(Take(Split(method_arn, "/"), 2), "/")

Policy(principal_id, resources, context) ==
    [raised |-> FALSE, principalId |-> principal_id, resources |-> resources,
     context |-> context]

Raise(message) == [raised |-> TRUE, error |-> message]

UNAUTHORIZED == <<"Unauthorized">>

create_m2m_auth_policy(principal_id, method_arn, context) ==
    Policy(principal_id,
           {BaseArn(method_arn) \o <<"/", "*", "/", "servers", "/", "*", "/", "mcp">>},
           context)

create_cognito_auth_policy(principal_id, method_arn, context) ==
    LET base_arn == BaseArn(method_arn) IN
    Policy(principal_id,
           {base_arn \o <<"/", "GET", "/", "servers">>,
            base_arn \o <<"/", "POST", "/", "servers">>,
            base_arn \o <<"/", "DELETE", "/", "servers", "/", "*">>,
            base_arn \o <<"/", "POST", "/", "images">>},
           context)

M2M == <<"m2m">>

COGNITO == <<"cognito">>

M2MContext(user_id, session_id) ==
    [userId |-> user_id, sessionId |-> session_id, tokenType |-> M2M]

CognitoContext(user_id) ==
    [userId |-> user_id, sessionId |-> None, tokenType |-> COGNITO]

handle_m2m_token_leaky(token, method_arn, tbl, db_ok) ==
    LET session_id == extract_session_id_from_arn(method_arn) IN
    IF Falsy(session_id) THEN Raise(UNAUTHORIZED)
    ELSE IF ~GetItem(tbl, session_id).present THEN Raise(<<"Session not found">>)
    ELSE LET user_id == validate_m2m_token(token, session_id, tbl, db_ok) IN
         IF Falsy(user_id) THEN Raise(UNAUTHORIZED)
         ELSE create_m2m_auth_policy(<<"m2m", ":">> \o session_id \o <<":">> \o user_id,
                                     method_arn, M2MContext(user_id, session_id))

handle_m2m_token(token, method_arn, tbl, db_ok) ==
    LET session_id == extract_session_id_from_arn(method_arn) IN
    IF Falsy(session_id) THEN Raise(UNAUTHORIZED)
    ELSE LET user_id == validate_m2m_token(token, session_id, tbl, db_ok) IN
         IF Falsy(user_id) THEN Raise(UNAUTHORIZED)
         ELSE create_m2m_auth_policy(<<"m2m", ":">> \o session_id \o <<":">> \o user_id,
                                     method_arn, M2MContext(user_id, session_id))

\* Environment of the Cognito validator: the configured pool, the keys the pool
\* publishes, and a JWT as the text "eyJ.alg.kid.signer.exp.iss.sub.token_use"
\* whose fields PyJWT reads (signer: the key whose private half signed it).
USER_POOL_ID == <<"us-east-1", "_", "pool1">>

PublishedKids == {<<"k1">>}

Issuer(user_pool_id) ==
    <<"https://cognito-idp.">> \o Split(user_pool_id, "_")[1]
        \o <<".amazonaws.com/">> \o user_pool_id

Jwt(alg, kid, signer, exp, iss, sub, token_use) ==
    Join(<< <<"eyJ">>, alg, kid, signer, exp, iss, sub, token_use >>, ".")

Digits == <<"0", "1", "2", "3", "4", "5", "6", "7", "8", "9">>

ParseInt(text) == (CHOOSE n \in 1..Len(Digits) : Digits[n] = text[1]) - 1

JwtParts(token) == Split(token, ".")

\* jwt.get_unverified_header / jwt.decode can read the token at all
JwtDecodable(token) ==
    Len(JwtParts(token)) = 8 /\ JwtParts(token)[1] = <<"eyJ">>

\* jwt.decode(token, public_key, algorithms=['RS256'], verify_exp, verify_iss,
\* issuer=...): TRUE when it returns the claims, FALSE when it raises
JwtDecodeOk(parts, issuer, t) ==
    /\ parts[2] = <<"RS256">>
    /\ parts[4] = parts[3]
    /\ (parts[5] = None \/ ParseInt(parts[5]) > t)
    /\ parts[6] = issuer

validate_cognito_token_anyuse(token, user_pool_id, jwks_ok, t) ==
    IF Falsy(user_pool_id) THEN None
    ELSE IF ~JwtDecodable(token) THEN None
    ELSE LET parts == JwtParts(token)
             kid == parts[3]
         IN  IF Falsy(kid) THEN None
             ELSE IF ~jwks_ok THEN None
             ELSE IF kid \notin PublishedKids THEN None
             ELSE IF ~JwtDecodeOk(parts, Issuer(user_pool_id), t) THEN None
             ELSE IF Falsy(parts[7]) THEN None
             ELSE parts[7]

\* jwks_ok = FALSE: fetching the pool's keys fails (RequestException)
validate_cognito_token(token, user_pool_id, jwks_ok, t) ==
    IF Falsy(user_pool_id) THEN None
    ELSE IF ~JwtDecodable(token) THEN None
    ELSE LET parts == JwtParts(token)
             kid == parts[3]
         IN  IF Falsy(kid) THEN None
             ELSE IF ~jwks_ok THEN None
             ELSE IF kid \notin PublishedKids THEN None
             ELSE IF ~JwtDecodeOk(parts, Issuer(user_pool_id), t) THEN None
             ELSE IF Falsy(parts[7]) THEN None
             ELSE IF parts[8] \notin {<<"access">>, <<"id">>} THEN None
             ELSE parts[7]

handle_cognito_token(token, method_arn, user_pool_id, jwks_ok, t) ==
    LET user_id == validate_cognito_token(token, user_pool_id, jwks_ok, t) IN
    IF Falsy(user_id) THEN Raise(UNAUTHORIZED)
    ELSE create_cognito_auth_policy(user_id, method_arn, CognitoContext(user_id))

----------------------------------------------------------------------------
(* src/authorizer/app.py: the Lambda entry point, with its own copies of   *)
(* the two validators and a policy for the exact method ARN.               *)

app_validate_m2m_token_nohash(token, session_id, tbl, db_ok) ==
    IF ~db_ok THEN None
    ELSE LET session == GetItem(tbl, session_id) IN
         IF ~session.present THEN None
         ELSE IF session.status # ACTIVE THEN None
         ELSE IF Falsy(session.m2m_token_hash) THEN None
         ELSE session.user_id

app_validate_m2m_token(token, session_id, tbl, db_ok) ==
    IF ~db_ok THEN None
    ELSE LET session == GetItem(tbl, session_id) IN
         IF ~session.present THEN None
         ELSE IF session.status # ACTIVE THEN None
         ELSE IF Falsy(session.m2m_token_hash) THEN None
         ELSE IF Sha256Hex(token) # session.m2m_token_hash THEN None
         ELSE session.user_id

app_validate_cognito_token(token, user_pool_id, jwks_ok, t) ==
    IF Falsy(user_pool_id) THEN None
    ELSE IF ~JwtDecodable(token) THEN None
    ELSE LET parts == JwtParts(token)
             kid == parts[3]
         IN  IF Falsy(kid) THEN None
             ELSE IF ~jwks_ok THEN None
             ELSE IF kid \notin PublishedKids THEN None
             ELSE IF ~JwtDecodeOk(parts, Issuer(user_pool_id), t) THEN None
             ELSE IF Falsy(parts[7]) THEN None
             ELSE IF parts[8] \notin {<<"access">>, <<"id">>} THEN None
             ELSE parts[7]

\* the session id the entry point reads from the ARN: server/SESSION_ID/mcp
app_extract_session_id(method_arn) ==
    LET arn_parts == Split(method_arn, "/")
        i == FindSessionIndex(arn_parts, <<"server">>, 1)
    IN  IF i = 0 THEN None ELSE arn_parts[i + 1]

ClassifyToken_short(token) ==
    IF StartsWith(token, <<"mcp_m2m">>) THEN "m2m" ELSE "cognito"

\* token.startswith('mcp_m2m_')
ClassifyToken(token) ==
    IF StartsWith(token, <<"mcp_m2m", "_">>) THEN "m2m" ELSE "cognito"

\* The result carries, beside what the caller gets (result), the branch that
\* handled the token (verifier): "m2m", "cognito", or "none" for a header that
\* holds no token.
lambda_handler(auth_header, method_arn, tbl, db_ok, user_pool_id, jwks_ok, t) ==
    IF ~StartsWith(auth_header, <<"Bearer", " ">>)
    THEN [verifier |-> "none", result |-> Raise(UNAUTHORIZED)]
    ELSE LET token == Split(auth_header, " ")[2] IN
    IF token = <<>>
    THEN [verifier |-> "none", result |-> Raise(UNAUTHORIZED)]
    ELSE IF ClassifyToken(token) = "m2m"
    THEN LET session_id == app_extract_session_id(method_arn) IN
         IF Falsy(session_id)
         THEN [verifier |-> "m2m", result |-> Raise(UNAUTHORIZED)]
         ELSE LET user_id == app_validate_m2m_token(token, session_id, tbl, db_ok) IN
              [verifier |-> "m2m",
               result |->
                   IF Falsy(user_id) THEN Raise(UNAUTHORIZED)
                   ELSE Policy(<<"m2m", ":">> \o session_id \o <<":">> \o user_id,
                               {method_arn}, M2MContext(user_id, session_id))]
    ELSE LET user_id == app_validate_cognito_token(token, user_pool_id, jwks_ok, t) IN
         [verifier |-> "cognito",
          result |->
              IF Falsy(user_id) THEN Raise(UNAUTHORIZED)
              ELSE Policy(user_id, {method_arn}, CognitoContext(user_id))]

----------------------------------------------------------------------------
(* JSON and HTTP values.  A JSON object is JObj(members), members a record *)
(* of the keys present (<<>> for {}); other JSON values are JArray.  An    *)
(* event body is the key missing, null, or a text that json.loads either   *)
(* parses to a value or rejects.                                           *)

JObj(members) == [type |-> "object", members |-> members]

JArray == [type |-> "array"]

IsDict(v) == v.type = "object"

HasKey(v, k) == IsDict(v) /\ k \in DOMAIN v.members

\* v.get(k)
Get(v, k) == IF HasKey(v, k) THEN v.members[k] ELSE None

BodyMissing == [kind |-> "missing"]

BodyNull == [kind |-> "null"]

BodyEmpty == [kind |-> "empty"]

BodyMalformed == [kind |-> "malformed"]

BodyJson(v) == [kind |-> "json", value |-> v]

HeadersMissing == [kind |-> "missing"]

HeadersNull == [kind |-> "null"]

\* pairs: the header map as a sequence of <<name, value>>
HeadersMap(pairs) == [kind |-> "map", pairs |-> pairs]

\* str.lower() on the header names the model uses
Lower(name) ==
    IF name \in {<<"Content-Type">>, <<"CONTENT-TYPE">>} THEN <<"content-type">> ELSE name

\* {k.lower(): v for k, v in headers.items()}.get(key): the last pair wins
RECURSIVE LowerGet(_, _, _)
LowerGet(pairs, key, found) ==
    IF pairs = <<>> THEN found
    ELSE LowerGet(Tail(pairs), key,
                  IF Lower(Head(pairs)[1]) = key THEN Head(pairs)[2] ELSE found)

\* A response: the status code and the body, a record tagged with its kind.
Resp(status, body) == [statusCode |-> status, body |-> body]

\* the body ''
EmptyBody == [kind |-> "empty"]

----------------------------------------------------------------------------
(* Python values a tool works with, and json.dumps / json.loads on text.   *)
(* A JSON text is a sequence of symbols in which the braces, the colon,    *)
(* the comma, the double quote and the backslash are symbols of their own. *)
(* A dict is the sequence of its <<key, value>> pairs in insertion order.  *)

PyStr(s) == [t |-> "str", v |-> s]

PyNum(n) == [t |-> "num", v |-> n]

PyBool(b) == [t |-> "bool", v |-> b]

PyNone == [t |-> "null"]

PyDict(pairs) == [t |-> "dict", pairs |-> pairs]

\* the number literals of the model
NumberSymbols == {"0", "1", "42"}

\* d.get(key, default): the last pair of the key holds its value
RECURSIVE DictGet(_, _, _)
DictGet(pairs, key, default) ==
    IF pairs = <<>> THEN default
    ELSE DictGet(Tail(pairs), key, IF Head(pairs)[1] = key THEN Head(pairs)[2] ELSE default)

\* json.dumps of a str: the quote and the backslash are escaped
RECURSIVE JsonEscape(_)
JsonEscape(s) ==
    IF s = <<>> THEN <<>>
    ELSE (IF Head(s) \in {"\"", "\\"} THEN <<"\\", Head(s)>> ELSE <<Head(s)>>)
         \o JsonEscape(Tail(s))

RECURSIVE Dumps(_)
RECURSIVE DumpsPairs(_)
DumpsPairs(pairs) ==
    IF pairs = <<>> THEN <<>>
    ELSE <<"\"">> \o JsonEscape(Head(pairs)[1]) \o <<"\"", ":">> \o Dumps(Head(pairs)[2])
         \o (IF Len(pairs) = 1 THEN <<>> ELSE <<",">> \o DumpsPairs(Tail(pairs)))

\* json.dumps(v)
Dumps(v) ==
    CASE v.t = "str" -> <<"\"">> \o JsonEscape(v.v) \o <<"\"">>
      [] v.t = "num" -> <<v.v>>
      [] v.t = "bool" -> <<IF v.v THEN "true" ELSE "false">>
      [] v.t = "null" -> <<"null">>
      [] v.t = "dict" -> <<"{">> \o DumpsPairs(v.pairs) \o <<"}">>

\* a parse: whether it succeeded, the value, and the index after it
Parsed(ok, value, next) == [ok |-> ok, value |-> value, next |-> next]

ParseFail == Parsed(FALSE, PyNone, 0)

\* the string literal whose opening quote is before index j
RECURSIVE ScanString(_, _, _)
ScanString(s, j, acc) ==
    IF j > Len(s) THEN ParseFail
    ELSE IF s[j] = "\"" THEN Parsed(TRUE, PyStr(acc), j + 1)
    ELSE IF s[j] = "\\"
         THEN IF j + 1 <= Len(s) /\ s[j + 1] \in {"\"", "\\"}
              THEN ScanString(s, j + 2, Append(acc, s[j + 1]))
              ELSE ParseFail
    ELSE ScanString(s, j + 1, Append(acc, s[j]))

RECURSIVE ParseValue(_, _)
RECURSIVE ParseMembers(_, _, _)
\* the members of an object, from the key at index i
ParseMembers(s, i, acc) ==
    IF i > Len(s) \/ s[i] # "\"" THEN ParseFail
    ELSE LET k == ScanString(s, i + 1, <<>>) IN
         IF ~k.ok \/ k.next > Len(s) \/ s[k.next] # ":" THEN ParseFail
         ELSE LET v == ParseValue(s, k.next + 1) IN
              IF ~v.ok \/ v.next > Len(s) THEN ParseFail
              ELSE IF s[v.next] = ","
                   THEN ParseMembers(s, v.next + 1, Append(acc, <<k.value.v, v.value>>))
              ELSE IF s[v.next] = "}"
                   THEN Parsed(TRUE, PyDict(Append(acc, <<k.value.v, v.value>>)), v.next + 1)
              ELSE ParseFail

ParseValue(s, i) ==
    IF i > Len(s) THEN ParseFail
    ELSE IF s[i] = "\"" THEN ScanString(s, i + 1, <<>>)
    ELSE IF s[i] = "{"
         THEN IF i + 1 <= Len(s) /\ s[i + 1] = "}"
              THEN Parsed(TRUE, PyDict(<<>>), i + 2)
              ELSE ParseMembers(s, i + 1, <<>>)
    ELSE IF s[i] \in NumberSymbols THEN Parsed(TRUE, PyNum(s[i]), i + 1)
    ELSE IF s[i] = "null" THEN Parsed(TRUE, PyNone, i + 1)
    ELSE IF s[i] \in {"true", "false"} THEN Parsed(TRUE, PyBool(s[i] = "true"), i + 1)
    ELSE ParseFail

\* json.loads(text): ok = FALSE is JSONDecodeError
Loads(text) ==
    LET p == ParseValue(text, 1) IN
    IF p.ok /\ p.next = Len(text) + 1 THEN p ELSE ParseFail

----------------------------------------------------------------------------
(* src/server/mcp_server/models/server_models.py and                       *)
(* services/tool_factory.py.  A tool definition is                         *)
(* [name, description, parameters, output]: parameters the sequence of     *)
(* the [name, type, description] of the parameter dict, in its order;      *)
(* output = [output_type, output_content], output_content the pairs of a   *)
(* dict.                                                                   *)

VALID_OUTPUT_TYPES == {<<"text">>, <<"image">>, <<"custom">>}

IsStr(v) == v.t = "str"

HasDictKey(pairs, key) == \E i \in 1..Len(pairs) : pairs[i][1] = key

\* v.strip() is non-empty, for a str whose only blank symbol is " "
NonBlank(s) == \E i \in 1..Len(s) : s[i] # " "

\* Output: validate_output_type and validate_output_content
ValidOutput(output) ==
    LET v == output.output_content IN
    /\ output.output_type \in VALID_OUTPUT_TYPES
    /\ output.output_type = <<"text">> =>
           /\ HasDictKey(v, <<"text">>)
           /\ IsStr(DictGet(v, <<"text">>, PyNone))
           /\ NonBlank(DictGet(v, <<"text">>, PyNone).v)
    /\ output.output_type = <<"image">> =>
           /\ HasDictKey(v, <<"s3_key">>)
           /\ IsStr(DictGet(v, <<"s3_key">>, PyNone))
           /\ NonBlank(DictGet(v, <<"s3_key">>, PyNone).v)
    /\ output.output_type = <<"custom">> =>
           /\ HasDictKey(v, <<"flow_type">>)
           /\ HasDictKey(v, <<"configuration">>)

\* ParameterDefinition: type and description of at least one character
ValidParameter(p) == p.type # <<>> /\ p.description # <<>>

\* ToolDefinition
ValidTool(tool) ==
    /\ tool.name # <<>>
    /\ tool.description # <<>>
    /\ ValidOutput(tool.output)
    /\ \A i \in 1..Len(tool.parameters) : ValidParameter(tool.parameters[i])

\* ToolFactory._execute_tool_logic: the raw result of the tool function
_execute_tool_logic(tool_def, kwargs) ==
    LET output_type == tool_def.output.output_type
        output_content == tool_def.output.output_content
    IN  IF output_type = <<"text">>
        THEN DictGet(output_content, <<"text">>, PyStr(<<>>))
        ELSE IF output_type = <<"image">>
        THEN PyStr(Dumps(PyDict(<<
                 << <<"type">>, PyStr(<<"image">>) >>,
                 << <<"s3_key">>, DictGet(output_content, <<"s3_key">>, PyStr(<<>>)) >>,
                 << <<"s3_bucket">>, DictGet(output_content, <<"s3_bucket">>, PyStr(<<>>)) >> >>)))
        ELSE IF output_type = <<"custom">>
        THEN PyStr(Dumps(PyDict(<<
                 << <<"type">>, PyStr(<<"custom_flow">>) >>,
                 << <<"flow_type">>, DictGet(output_content, <<"flow_type">>, PyStr(<<>>)) >>,
                 << <<"configuration">>,
                    DictGet(output_content, <<"configuration">>, PyStr(<<>>)) >> >>)))
        ELSE DictGet(output_content, <<"text">>, PyStr(<<>>))

\* PARAMETER_TYPE_MAPPING.get(param_def.type, str), as the schema type that
\* get_type_schema gives the Python type
_generate_type_annotations(type) ==
    IF type \in {<<"number">>, <<"integer">>, <<"boolean">>} THEN type ELSE <<"string">>

\* ToolFactory._set_function_metadata: the function object, with __name__
\* and __annotations__; annotations['return'] = str replaces a parameter
\* named 'return'
_set_function_metadata(tool_def) ==
    LET returns == [name |-> <<"return">>, hint |-> <<"str">>]
        declared ==
            [i \in 1..Len(tool_def.parameters) |->
                IF tool_def.parameters[i].name = <<"return">> THEN returns
                ELSE [name |-> tool_def.parameters[i].name,
                      hint |-> _generate_type_annotations(tool_def.parameters[i].type)]]
    IN  [name |-> tool_def.name,
         doc |-> tool_def.description,
         annotations |->
             IF \E i \in 1..Len(declared) : declared[i] = returns
             THEN declared ELSE Append(declared, returns),
         tool_def |-> tool_def]

\* ToolFactory.create_tool_functions
create_tool_functions(tools) == [i \in 1..Len(tools) |-> _set_function_metadata(tools[i])]

----------------------------------------------------------------------------
(* src/server/mcp_server/services/s3_service.py and                        *)
(* handlers/output_handler.py.  The environment of a rendering is          *)
(* [s3, js]: what the blob store answers to get_object and what the        *)
(* script interpreter does with the code it is given.                      *)

TextContent(text) == [type |-> "text", text |-> text]

ImageContent(data, mimeType) == [type |-> "image", data |-> data, mimeType |-> mimeType]

\* what a call gave: the value it returned, the exception it raised, or
\* nothing because it never came back
Returned(value) == [kind |-> "returned", value |-> value]

Raised(message) == [kind |-> "raised", message |-> message]

NeverReturns == [kind |-> "never returns"]

\* bool(v) is False
PyFalsy(v) ==
    \/ v.t = "null"
    \/ v.t = "str" /\ v.v = <<>>
    \/ v.t = "num" /\ v.v = "0"
    \/ v.t = "bool" /\ ~v.v
    \/ v.t = "dict" /\ v.pairs = <<>>

\* str(v); the values that reach it are str, for which it is v itself
PyStrOf(v) == IF v.t = "str" THEN v.v ELSE Dumps(v)

get_image_placeholder(s3_key, s3_bucket, s3) ==
    Returned([data |-> <<>>,
              mimeType |-> IF s3.kind = "object" THEN s3.content_type ELSE <<"image/jpeg">>])

\* S3Service.get_image.  s3 is the store's answer: an object with its content
\* type, a ClientError with its Error.Code, or another exception.
get_image(s3_key, s3_bucket, s3) ==
    IF ~IsStr(s3_key)
    THEN Raised(<<"Failed to download image from S3: ", "invalid key">>)
    ELSE IF s3.kind = "object"
    THEN Returned([data |-> <<"base64(">> \o s3_key.v \o <<")">>, mimeType |-> s3.content_type])
    ELSE IF s3.kind = "client_error"
    THEN IF s3.code \notin {"403", "404", "500"}
         THEN Raised(<<"invalid literal for int() with base 10: ", s3.code>>)
         ELSE IF s3.code = "403"
         THEN Raised(<<"Access denied downloading from S3 bucket">>)
         ELSE IF s3.code = "404"
         THEN Raised(<<"Image not found: ">> \o s3_key.v)
         ELSE Raised(<<"AWS error downloading image from S3: ", s3.code>>)
    ELSE Raised(<<"Failed to download image from S3: ", "error">>)

_handle_text_output(text) == Returned(<<TextContent(text)>>)

_handle_image_output(image_data, s3) ==
    LET s3_key == DictGet(image_data, <<"s3_key">>, PyNone)
        s3_bucket == DictGet(image_data, <<"s3_bucket">>, PyNone)
    IN  IF PyFalsy(s3_key)
        THEN Returned(<<TextContent(<<"Error loading image: ", "Image output missing s3_key">>)>>)
        ELSE LET got == get_image(s3_key, s3_bucket, s3) IN
             IF got.kind = "raised"
             THEN Returned(<<TextContent(<<"Error loading image: ">> \o got.message)>>)
             ELSE Returned(<<ImageContent(got.value.data, got.value.mimeType)>>)

\* OutputHandler._execute_javascript: dukpy.evaljs(execution_code) returns the
\* value of 'output' (js.kind = "returned"), raises, or does not come back
_execute_javascript(js_code, parameters, js) ==
    IF js.kind = "raised"
    THEN Raised(<<"JavaScript execution failed: ">> \o js.message)
    ELSE IF js.kind = "never returns" THEN NeverReturns
    ELSE IF js.value # PyNone THEN Returned(js.value)
    ELSE Returned(PyStr(<<"No 'output' variable found in JavaScript code">>))

_handle_custom_flow_output_silent(flow_data, parameters, js) ==
    LET result == _execute_javascript(DictGet(flow_data, <<"configuration">>, PyStr(<<>>)),
                                      parameters, js)
    IN  IF result.kind = "never returns" THEN NeverReturns
        ELSE IF result.kind = "raised" THEN Returned(<<>>)
        ELSE Returned(<<TextContent(PyStrOf(result.value))>>)

_handle_custom_flow_output(flow_data, parameters, js) ==
    LET flow_type == DictGet(flow_data, <<"flow_type">>, PyStr(<<>>))
        configuration == DictGet(flow_data, <<"configuration">>, PyStr(<<>>))
    IN  IF flow_type # PyStr(<<"javascript">>)
        THEN _handle_text_output(<<"Unsupported flow type: ">> \o PyStrOf(flow_type))
        ELSE IF PyFalsy(configuration)
        THEN _handle_text_output(<<"No JavaScript code provided">>)
        ELSE LET result == _execute_javascript(configuration, parameters, js) IN
             IF result.kind = "never returns" THEN NeverReturns
             ELSE IF result.kind = "raised"
             THEN Returned(<<TextContent(<<"Error executing custom flow: ">> \o result.message)>>)
             ELSE IF IsStr(result.value)
             THEN LET json_result == Loads(result.value.v) IN
                  IF json_result.ok
                  THEN Returned(<<TextContent(Dumps(json_result.value))>>)
                  ELSE Returned(<<TextContent(result.value.v)>>)
             ELSE IF result.value # PyNone
             THEN Returned(<<TextContent(Dumps(result.value))>>)
             ELSE Returned(<<TextContent(<<"No 'output' variable found in JavaScript code">>)>>)

\* lines 31-55 of process_output: the body of its try
process_output_try(result, parameters, env) ==
    LET result_str == PyStrOf(result)
        parsed_result == Loads(result_str)
        type == IF parsed_result.ok /\ parsed_result.value.t = "dict"
                THEN DictGet(parsed_result.value.pairs, <<"type">>, PyNone)
                ELSE PyNone
    IN  IF type = PyStr(<<"image">>)
        THEN _handle_image_output(parsed_result.value.pairs, env.s3)
        ELSE IF type \in {PyStr(<<"custom">>), PyStr(<<"custom_flow">>)}
        THEN _handle_custom_flow_output(parsed_result.value.pairs, parameters, env.js)
        ELSE _handle_text_output(result_str)

\* lines 57-59 of process_output: its except clause
process_output_except(content) ==
    IF content.kind = "raised"
    THEN Returned(<<TextContent(<<"Error processing output: ">> \o content.message)>>)
    ELSE content

\* OutputHandler.process_output(result, parameters)
process_output(result, parameters, env) ==
    process_output_except(process_output_try(result, parameters, env))

----------------------------------------------------------------------------
(* src/server/mcp_server/mcp_lambda_handler.py: the protocol engine.       *)

\* MCPLambdaHandler(name, version, tools): the registry, by tool name.
\* session_id is no attribute of the class: it records, for the claims, the
\* session the engine was built for.
\* str.capitalize() on a symbol that is the first of its word, and str.lower()
\* on the others: the names of the model are built of these symbols
CapitalizeSymbol(c) ==
    CASE c \in {"get", "Get"} -> "Get"
      [] c \in {"data", "Data"} -> "Data"
      [] c \in {"echo", "Echo"} -> "Echo"
      [] OTHER -> c

LowerSymbol(c) ==
    CASE c \in {"get", "Get"} -> "get"
      [] c \in {"data", "Data"} -> "data"
      [] c \in {"echo", "Echo"} -> "echo"
      [] OTHER -> c

capitalize(word) ==
    [i \in 1..Len(word) |-> IF i = 1 THEN CapitalizeSymbol(word[i]) ELSE LowerSymbol(word[i])]

RECURSIVE CapitalizeAll(_)
CapitalizeAll(words) ==
    IF words = <<>> THEN <<>> ELSE capitalize(Head(words)) \o CapitalizeAll(Tail(words))

\* lines 84-88: the function name in camelCase
CamelCase(func_name) ==
    LET words == Split(func_name, "_") IN words[1] \o CapitalizeAll(Tail(words))

\* lines 94-97 and 162-169: the type hints without 'return', as the
\* properties and the required list of the input schema (the argument
\* descriptions parsed back from the docstring are left out)
InputSchema(func) ==
    LET hints == SelectSeq(func.annotations, LAMBDA a : a.name # <<"return">>) IN
    [type |-> "object",
     properties |-> [i \in 1..Len(hints) |-> [name |-> hints[i].name, type |-> hints[i].hint]],
     required |-> [i \in 1..Len(hints) |-> hints[i].name]]

\* the registry self.tools with self.tool_implementations: one entry per key,
\* in the order the keys were first set; registering a name again replaces
\* the schema and the function under it
_register_tool(registry, func) ==
    LET tool_name == CamelCase(func.name)
        tool_schema == [name |-> tool_name, description |-> func.doc,
                        inputSchema |-> InputSchema(func), func |-> func]
    IN  IF \E i \in 1..Len(registry) : registry[i].name = tool_name
        THEN [i \in 1..Len(registry) |->
                 IF registry[i].name = tool_name THEN tool_schema ELSE registry[i]]
        ELSE Append(registry, tool_schema)

RECURSIVE RegisterTools(_, _)
RegisterTools(registry, funcs) ==
    IF funcs = <<>> THEN registry
    ELSE RegisterTools(_register_tool(registry, Head(funcs)), Tail(funcs))

MCPLambdaHandler(name, tools) ==
    [loaded |-> TRUE, name |-> name, tools |-> RegisterTools(<<>>, tools),
     session_id |-> None]

ToolNames(engine) == {engine.tools[i].name : i \in 1..Len(engine.tools)}

ToolSchemas_declared(engine) ==
    [i \in 1..Len(engine.tools) |->
        [name |-> engine.tools[i].func.name, description |-> engine.tools[i].description,
         inputSchema |-> engine.tools[i].inputSchema]]

\* list(self.tools.values()): the schema documents
ToolSchemas(engine) ==
    [i \in 1..Len(engine.tools) |->
        [name |-> engine.tools[i].name, description |-> engine.tools[i].description,
         inputSchema |-> engine.tools[i].inputSchema]]

\* self.tool_implementations[tool_name]
ToolImplementation(engine, tool_name) ==
    (CHOOSE t \in {engine.tools[i] : i \in 1..Len(engine.tools)} : t.name = tool_name).func

\* a mapping that would answer every error with 500
_error_code_to_http_status_flat(error_code) == 500

_error_code_to_http_status(error_code) ==
    CASE error_code = -32700 -> 400
      [] error_code = -32600 -> 400
      [] error_code = -32601 -> 404
      [] error_code = -32602 -> 400
      [] error_code = -32603 -> 500
      [] OTHER -> 500

\* ErrorContent(text=...).model_dump()
ErrorContent(text) == [type |-> "error", text |-> text]

\* _create_error_response(code, message, request_id, error_content)
_create_error_response_with(code, message, request_id, error_content) ==
    Resp(_error_code_to_http_status(code),
         [kind |-> "rpc_error", jsonrpc |-> "2.0", id |-> request_id, code |-> code,
          message |-> message, errorContent |-> error_content])

\* error_content left at its default, None: the envelope has no blocks
_create_error_response(code, message, request_id) ==
    _create_error_response_with(code, message, request_id, <<>>)

_create_success_response(result, request_id) ==
    Resp(200, [kind |-> "rpc_result", jsonrpc |-> "2.0", id |-> request_id,
               result |-> result])

\* what handle_request did: its response, the method it dispatched, the tool
\* it executed, and (set by the caller) the session of the engine that ran
Handled(response, dispatched, executed) ==
    [response |-> response, dispatched |-> dispatched, executed |-> executed,
     engine |-> None]

\* request.params is truthy: the key is present and holds a non-empty object
ParamsTruthy(body) ==
    /\ HasKey(body, "params")
    /\ DOMAIN body.members.params.members # {}

\* an engine that would take any 'arguments' for a map
ArgumentsIterable_any(params) == TRUE

\* tool_args.items() works: 'arguments' is absent (the default {}) or a dict
ArgumentsIterable(params) == ~HasKey(params, "arguments") \/ IsDict(Get(params, "arguments"))

\* the response of a call that has not come back
Pending == Resp(0, [kind |-> "pending"])

\* the content of a successful call: the engine the services build
\* (handlers/mcp_lambda_handler.py) hands the raw result and the arguments of
\* the call to the output handler
tool_call_content(result, tool_args, render) == process_output(result, tool_args, render)

\* the response of tools/call once the tool has run: its content, or the
\* error of an exception
tool_call_response(id, method, tool_name, content) ==
    IF content.kind = "never returns"
    THEN Handled(Pending, method, tool_name)
    ELSE IF content.kind = "raised"
    THEN Handled(_create_error_response_with(-32603, "Error executing tool", id,
                                             <<ErrorContent(content.message)>>),
                 method, tool_name)
    ELSE Handled(_create_success_response(
                     [kind |-> "content", tool |-> tool_name,
                      content |-> content.value], id),
                 method, tool_name)

\* a dispatch that would take a tools/call without params for a call with
\* nothing to do
Dispatch_lenient(engine, body, render) ==
    IF Get(body, "method") = <<"tools/call">> /\ ~ParamsTruthy(body)
    THEN Handled(_create_success_response([kind |-> "content", tool |-> None,
                                           content |-> <<>>], Get(body, "id")),
                 Get(body, "method"), None)
    ELSE IF Get(body, "method") = <<"ping">>
    THEN Handled(_create_success_response([kind |-> "ping"], Get(body, "id")),
                 Get(body, "method"), None)
    ELSE Handled(_create_error_response(-32601, "Method not found", Get(body, "id")),
                 None, None)

\* the dispatch of a validated request (lines 265-332)
Dispatch(engine, body, render) ==
    LET id == Get(body, "id")
        method == Get(body, "method")
    IN  IF method = <<"initialize">>
        THEN Handled(_create_success_response([kind |-> "initialize", name |-> engine.name], id),
                     method, None)
        ELSE IF method = <<"tools/list">>
        THEN Handled(_create_success_response([kind |-> "tools", tools |-> ToolSchemas(engine)], id),
                     method, None)
        ELSE IF method = <<"tools/call">> /\ ParamsTruthy(body)
        THEN LET tool_name == Get(body.members.params, "name") IN
             IF tool_name \notin ToolNames(engine)
             THEN Handled(_create_error_response(-32601, "Tool not found", id), method, None)
             ELSE IF ~ArgumentsIterable(body.members.params)
             THEN Handled(_create_error_response_with(
                              -32603, "Error executing tool", id,
                              <<ErrorContent(<<"object has no attribute 'items'">>)>>),
                          method, None)
             ELSE LET tool_args == Get(body.members.params, "arguments")
                      tool_func == ToolImplementation(engine, tool_name)
                      result == _execute_tool_logic(tool_func.tool_def, tool_args)
                  IN  tool_call_response(id, method, tool_name,
                                         tool_call_content(result, tool_args, render))
        ELSE IF method = <<"ping">>
        THEN Handled(_create_success_response([kind |-> "ping"], id), method, None)
        ELSE Handled(_create_error_response(-32601, "Method not found", id), None, None)

\* line 246: isinstance(body, dict) and 'id' not in body
IsNotification_bymethod(body) ==
    IsDict(body) /\ StartsWith(Get(body, "method"), <<"notifications/">>)

IsNotification(body) == IsDict(body) /\ ~HasKey(body, "id")

handle_request(engine, event, render) ==
    IF event.headers.kind = "null"
    THEN Handled(_create_error_response(-32000, "exception", None), None, None)
    ELSE LET content_type ==
                 IF event.headers.kind = "missing" THEN None
                 ELSE LowerGet(event.headers.pairs, <<"content-type">>, None)
         IN
    IF content_type # <<"application/json">>
    THEN Handled(_create_error_response(-32700, "Unsupported Media Type", None), None, None)
    ELSE IF event.body.kind \in {"missing", "null"}
    THEN Handled(_create_error_response(-32000, "exception", None), None, None)
    ELSE IF event.body.kind \in {"empty", "malformed"}
    THEN Handled(_create_error_response(-32700, "Parse error", None), None, None)
    ELSE LET body == event.body.value
             request_id == Get(body, "id")
         IN
    IF IsNotification(body)
    THEN Handled(Resp(202, EmptyBody), None, None)
    ELSE IF ~IsDict(body) \/ Get(body, "jsonrpc") # <<"2.0">> \/ ~HasKey(body, "method")
    THEN Handled(_create_error_response(-32700, "Parse error", request_id), None, None)
    ELSE Dispatch(engine, body, render)

----------------------------------------------------------------------------
(* src/server/mcp_server: models, services/server_service.py,              *)
(* services/database_service.py, handlers/mcp_server_handler.py.           *)
(* st is the state a call works on: [store, active_handlers, issued_ids].  *)
(* A call returns its response, the functions it ran (calls), what the     *)
(* engine did (rpc) and the state it leaves.                               *)

NoRpc == Handled(Resp(0, EmptyBody), None, None)

Outcome(response, calls, rpc, st) ==
    [response |-> response, calls |-> calls, rpc |-> rpc, st |-> st]

ErrorBody(message) == [kind |-> "error", error |-> message]

\* MCPServerRequest(**data): name, description non-empty, at least one tool,
\* each tool a valid ToolDefinition
ValidRequest(data) ==
    /\ {"name", "description", "tools"} \subseteq DOMAIN data
    /\ ~Falsy(data.name)
    /\ ~Falsy(data.description)
    /\ Len(data.tools) >= 1
    /\ \A i \in 1..Len(data.tools) : ValidTool(data.tools[i])

\* An entry of ValidationError.errors(): the field and, for a field of a
\* tool, the position of the tool (0 for a field of the request).
FieldError(loc, index) == [loc |-> loc, index |-> index]

\* the errors of one ToolDefinition
ToolErrors(tool, i) ==
    {FieldError("tools.name", i) : x \in {1} \cap (IF tool.name = <<>> THEN {1} ELSE {})}
    \cup {FieldError("tools.description", i) :
             x \in {1} \cap (IF tool.description = <<>> THEN {1} ELSE {})}
    \cup {FieldError("tools.output.output_type", i) :
             x \in {1} \cap (IF tool.output.output_type \notin VALID_OUTPUT_TYPES
                              THEN {1} ELSE {})}
    \cup {FieldError("tools.output.output_content", i) :
             x \in {1} \cap (IF tool.output.output_type \in VALID_OUTPUT_TYPES
                                 /\ ~ValidOutput(tool.output) THEN {1} ELSE {})}
    \cup {FieldError("tools.parameters", i) :
             x \in {1} \cap (IF \E k \in 1..Len(tool.parameters) :
                                    ~ValidParameter(tool.parameters[k]) THEN {1} ELSE {})}

\* e.errors() of MCPServerRequest(**data): a required field left out, a
\* string or a list below its least length, and the errors of each tool
ValidationErrors(data) ==
    {FieldError(f, 0) : f \in {"name", "description", "tools"} \ DOMAIN data}
    \cup {FieldError(f, 0) : f \in {g \in {"name", "description"} \cap DOMAIN data :
                                      Falsy(data[g])}}
    \cup (IF "tools" \notin DOMAIN data THEN {}
          ELSE IF Len(data.tools) < 1 THEN {FieldError("tools", 0)}
          ELSE UNION {ToolErrors(data.tools[i], i) : i \in 1..Len(data.tools)})

\* ResponseBuilder.validation_error('Validation failed', e.errors())
validation_error(message, validation_errors) ==
    Resp(400, [kind |-> "error", error |-> message, details |-> validation_errors])

\* constants.py: SERVER_EXPIRY_HOURS * 60 * 60, the 24 hours being one tick of
\* the clock
SERVER_EXPIRY_SECONDS == 1

\* ServerService.create_server_data: the item to store and the engine;
\* current_time is int(time.time())
create_server_data(request, user_id, session_id, random_part, current_time) ==
    LET m2m_token == generate_m2m_token(session_id, user_id, random_part) IN
    [server_data |->
        [present |-> TRUE, session_id |-> session_id, user_id |-> user_id,
         name |-> request.name, description |-> request.description,
         tools |-> request.tools, status |-> ACTIVE, m2m_token |-> m2m_token,
         m2m_token_hash |-> hash_token(m2m_token),
         created_at |-> current_time, updated_at |-> current_time,
         expires_at |-> current_time + SERVER_EXPIRY_SECONDS],
     mcp_handler |-> [MCPLambdaHandler(request.name, create_tool_functions(request.tools))
                         EXCEPT !.session_id = session_id]]

\* table.put_item(Item=...) and self.active_handlers[session_id] = ...
PutItem(tbl, key, item) ==
    [k \in DOMAIN tbl \cup {key} |-> IF k = key THEN item ELSE tbl[k]]

\* a create_server that would draw the id of the session before it
\* validates the request
create_server_drawing(request_data, user_id, st, new_id, random_part, db_ok) ==
    IF ~ValidRequest(request_data)
    THEN Outcome(validation_error("Validation failed", ValidationErrors(request_data)),
                 <<"create_server">>, NoRpc,
                 [st EXCEPT !.issued_ids = @ \cup {new_id}])
    ELSE LET made == create_server_data(request_data, user_id, new_id, random_part, st.now)
             drawn == [st EXCEPT !.issued_ids = @ \cup {new_id}]
         IN  IF ~db_ok
             THEN Outcome(Resp(500, ErrorBody("Server creation failed")),
                          <<"create_server">>, NoRpc, drawn)
             ELSE Outcome(Resp(201, [kind |-> "created", session_id |-> new_id,
                                     m2m_token |-> made.server_data.m2m_token]),
                          <<"create_server">>, NoRpc,
                          [drawn EXCEPT !.store = PutItem(@, new_id, made.server_data),
                                        !.active_handlers = PutItem(@, new_id, made.mcp_handler)])

\* db_ok = FALSE: put_item raises
create_server(request_data, user_id, st, new_id, random_part, db_ok) ==
    IF ~ValidRequest(request_data)
    THEN Outcome(validation_error("Validation failed", ValidationErrors(request_data)),
                 <<"create_server">>, NoRpc, st)
    ELSE LET made == create_server_data(request_data, user_id, new_id, random_part, st.now)
             drawn == [st EXCEPT !.issued_ids = @ \cup {new_id}]
         IN  IF ~db_ok
             THEN Outcome(Resp(500, ErrorBody("Server creation failed")),
                          <<"create_server">>, NoRpc, drawn)
             ELSE Outcome(Resp(201, [kind |-> "created", session_id |-> new_id,
                                     m2m_token |-> made.server_data.m2m_token]),
                          <<"create_server">>, NoRpc,
                          [drawn EXCEPT !.store = PutItem(@, new_id, made.server_data),
                                        !.active_handlers = PutItem(@, new_id, made.mcp_handler)])

\* session_id in self.active_handlers
InHandlers(handlers, session_id) ==
    session_id \in DOMAIN handlers /\ handlers[session_id].loaded

\* line 102: return handler.handle_request(event, context), with the engine
\* that handled the request recorded
Served(rpc, handler, st) ==
    Outcome(rpc.response, <<"load_server", "handle_request">>,
            [rpc EXCEPT !.engine = handler.session_id], st)

\* a load_server that would store the record create_server_data makes when
\* it rebuilds the engine
load_server_persisting(session_id, user_id, event, st, random_part, db_ok, render) ==
    LET session == IF db_ok THEN GetItem(st.store, session_id) ELSE Absent IN
    IF InHandlers(st.active_handlers, session_id) \/ ~session.present
       \/ session.user_id # user_id \/ ~ValidRequest(session)
    THEN Outcome(Resp(404, ErrorBody("MCP server session not found")),
                 <<"load_server">>, NoRpc, st)
    ELSE LET made == create_server_data(session, user_id, session_id, random_part, st.now)
         IN  Served(handle_request(made.mcp_handler, event, render), made.mcp_handler,
                    [st EXCEPT !.active_handlers[session_id] = made.mcp_handler,
                               !.store[session_id] = made.server_data])

\* db_ok = FALSE: get_session catches the store's exception and returns None
load_server(session_id, user_id, event, st, random_part, db_ok, render) ==
    IF ~InHandlers(st.active_handlers, session_id)
    THEN LET session == IF db_ok THEN GetItem(st.store, session_id) ELSE Absent IN
         IF ~session.present
         THEN Outcome(Resp(404, ErrorBody("MCP server session not found")),
                      <<"load_server">>, NoRpc, st)
         ELSE IF session.user_id # user_id
         THEN Outcome(Resp(403, ErrorBody("Access denied")), <<"load_server">>, NoRpc, st)
         ELSE IF ~ValidRequest(session)
         THEN Outcome(Resp(500, ErrorBody("Invalid MCP server session data")),
                      <<"load_server">>, NoRpc, st)
         ELSE LET mcp_handler ==
                      create_server_data(session, user_id, session_id, random_part, st.now).mcp_handler
              IN  Served(handle_request(mcp_handler, event, render), mcp_handler,
                         [st EXCEPT !.active_handlers[session_id] = mcp_handler])
    ELSE Served(handle_request(st.active_handlers[session_id], event, render),
                st.active_handlers[session_id], st)

\* MCPServerListResponse(**session) accepts the item
ListableItem(item) ==
    /\ item.present
    /\ \A f \in {"user_id", "name", "description", "status", "m2m_token"} :
           f \in DOMAIN item /\ item[f] # None
    /\ \A f \in {"created_at", "updated_at", "expires_at"} :
           f \in DOMAIN item /\ item[f] \in Int

get_all_servers(user_id, st, db_ok) ==
    LET sessions == IF db_ok
                    THEN {sid \in DOMAIN st.store :
                              st.store[sid].present /\ st.store[sid].user_id = user_id}
                    ELSE {}
    IN  Outcome(Resp(200, [kind |-> "list",
                           servers |-> {[st.store[sid] EXCEPT
                                            !.status = IF InHandlers(st.active_handlers, sid)
                                                       THEN ACTIVE ELSE <<"idle">>] :
                                        sid \in {x \in sessions : ListableItem(st.store[x])}}]),
                <<"get_all_servers">>, NoRpc, st)

\* db_ok = FALSE: the store raises inside get_session and delete_session, which
\* return None and False
delete_server(session_id, user_id, st, db_ok) ==
    LET session == IF db_ok THEN GetItem(st.store, session_id) ELSE Absent IN
    IF ~session.present
    THEN Outcome(Resp(404, ErrorBody("MCP server session not found")),
                 <<"delete_server">>, NoRpc, st)
    ELSE IF session.user_id # user_id
    THEN Outcome(Resp(403, ErrorBody("Access denied")), <<"delete_server">>, NoRpc, st)
    ELSE Outcome(Resp(200, [kind |-> "deleted", session_id |-> session_id]),
                 <<"delete_server">>, NoRpc,
                 [st EXCEPT !.store[session_id] = Absent,
                            !.active_handlers[session_id] = NoHandler])

\* the image upload: 400 without image_data, else the blob store's key
upload_image(request_data, user_id, st) ==
    IF "image_data" \notin DOMAIN request_data
    THEN Outcome(Resp(400, ErrorBody("Missing image_data field")), <<"upload_image">>, NoRpc, st)
    ELSE Outcome(Resp(200, [kind |-> "uploaded"]), <<"upload_image">>, NoRpc, st)

\* DynamoDBService.update_session: SET the given fields; update_item creates
\* the item when the key is new
update_session(tbl, session_id, status) ==
    IF tbl[session_id].present
    THEN [tbl EXCEPT ![session_id].status = status]
    ELSE [tbl EXCEPT ![session_id] =
             [present |-> TRUE, session_id |-> session_id, user_id |-> None,
              name |-> None, description |-> None, tools |-> <<>>, status |-> status,
              m2m_token |-> None, m2m_token_hash |-> None,
              created_at |-> None, updated_at |-> None, expires_at |-> None]]

----------------------------------------------------------------------------
(* src/server: utils.py, auth.py, routes.py, handlers.py, app.py.          *)
(* An event is [path, httpMethod, headers, body, authorizer]; authorizer   *)
(* is requestContext.authorizer: missing, not a dict, or the context map.  *)

AuthorizerMissing == [kind |-> "missing"]

AuthorizerNotDict == [kind |-> "notdict"]

AuthorizerMap(context) == [kind |-> "map", context |-> context]

parse_path(path) ==
    LET path_parts == NonEmptyParts(Split(Strip(path, "/"), "/")) IN
    IF path_parts = <<>>
    THEN [resource |-> None, extracted_session_id |-> None, is_mcp |-> FALSE]
    ELSE [resource |-> path_parts[1],
          extracted_session_id |-> IF Len(path_parts) > 1 THEN path_parts[2] ELSE None,
          is_mcp |-> path_parts[Len(path_parts)] = <<"mcp">>]

extract_auth_context(event) ==
    IF event.authorizer.kind # "map"
    THEN [user_id |-> None, session_id |-> None, token_type |-> None]
    ELSE [user_id |-> event.authorizer.context.userId,
          session_id |-> event.authorizer.context.sessionId,
          token_type |-> event.authorizer.context.tokenType]

\* parse_json_body: [ok, value]; ok = FALSE is json.JSONDecodeError, and a
\* missing, null or empty body is {}
parse_json_body(event) ==
    IF event.body.kind \in {"missing", "null", "empty"} THEN [ok |-> TRUE, value |-> JObj(<<>>)]
    ELSE IF event.body.kind = "malformed" THEN [ok |-> FALSE, value |-> JObj(<<>>)]
    ELSE [ok |-> TRUE, value |-> event.body.value]

\* the handler bodies (inside the decorators); env holds the outcomes the
\* environment chooses: new_id, random_part, db_ok
handle_server_creation_body(event, auth_context, st, env) ==
    LET request_data == parse_json_body(event) IN
    IF ~request_data.ok
    THEN Outcome(Resp(400, ErrorBody("Invalid JSON in request body")), <<>>, NoRpc, st)
    ELSE IF ~IsDict(request_data.value)
    THEN Outcome(Resp(500, ErrorBody("Failed to create server")), <<"create_server">>, NoRpc, st)
    ELSE create_server(request_data.value.members, auth_context.user_id, st,
                       env.new_id, env.random_part, env.db_ok)

handle_server_listing_body(event, auth_context, st, env) ==
    get_all_servers(auth_context.user_id, st, env.db_ok)

\* delete_server(user_id, session_id): the arguments in the order of the call
handle_server_deletion_body(event, auth_context, st, env) ==
    delete_server(auth_context.user_id, auth_context.session_id, st, env.db_ok)

handle_image_upload_body(event, auth_context, st, env) ==
    LET request_data == parse_json_body(event) IN
    IF ~request_data.ok
    THEN Outcome(Resp(400, ErrorBody("Invalid JSON in request body")), <<>>, NoRpc, st)
    ELSE IF ~IsDict(request_data.value)
    THEN Outcome(Resp(500, ErrorBody("Failed to upload image")), <<"upload_image">>, NoRpc, st)
    ELSE upload_image(request_data.value.members, auth_context.user_id, st)

handle_mcp_server_access_body(event, auth_context, st, env) ==
    load_server(auth_context.extracted_session_id, auth_context.user_id, event, st,
                env.random_part, env.db_ok, env.render)

USER_AUTH_REQUIRED == "This operation requires user authentication"

SERVER_AUTH_REQUIRED == "This operation requires server authentication"

TOKEN_SESSION_MISMATCH == "Token is not valid for this session"

\* @require_auth(required_token_type): TRUE lets the handler run
require_auth_any(required_token_type, auth_context) ==
    auth_context.token_type \in {M2M, COGNITO}

require_auth(required_token_type, auth_context) ==
    auth_context.token_type = required_token_type

RequireAuthError(required_token_type, st) ==
    Outcome(Resp(403, ErrorBody(IF required_token_type = COGNITO THEN USER_AUTH_REQUIRED
                                ELSE IF required_token_type = M2M THEN SERVER_AUTH_REQUIRED
                                ELSE "Invalid authentication type")),
            <<>>, NoRpc, st)

\* @require_session_match: TRUE lets the handler run
require_session_match_any(auth_context) ==
    auth_context.session_id # None

require_session_match(auth_context) ==
    auth_context.session_id = auth_context.extracted_session_id

\* the decorated handlers of handlers.py
handle_server_creation(event, auth_context, st, env) ==
    IF ~require_auth(COGNITO, auth_context) THEN RequireAuthError(COGNITO, st)
    ELSE handle_server_creation_body(event, auth_context, st, env)

handle_server_listing(event, auth_context, st, env) ==
    IF ~require_auth(COGNITO, auth_context) THEN RequireAuthError(COGNITO, st)
    ELSE handle_server_listing_body(event, auth_context, st, env)

handle_server_deletion(event, auth_context, st, env) ==
    IF ~require_auth(COGNITO, auth_context) THEN RequireAuthError(COGNITO, st)
    ELSE handle_server_deletion_body(event, auth_context, st, env)

handle_image_upload(event, auth_context, st, env) ==
    IF ~require_auth(COGNITO, auth_context) THEN RequireAuthError(COGNITO, st)
    ELSE handle_image_upload_body(event, auth_context, st, env)

handle_mcp_server_access(event, auth_context, st, env) ==
    IF ~require_auth(M2M, auth_context) THEN RequireAuthError(M2M, st)
    ELSE IF ~require_session_match(auth_context)
    THEN Outcome(Resp(403, ErrorBody(TOKEN_SESSION_MISMATCH)), <<>>, NoRpc, st)
    ELSE handle_mcp_server_access_body(event, auth_context, st, env)

\* RouteMap.get_handler: the handler's name, or "" when the triple is no key
get_handler(resource, method, is_mcp) ==
    CASE resource = <<"server">> /\ method = <<"POST">> /\ ~is_mcp -> "handle_server_creation"
      [] resource = <<"server">> /\ method = <<"GET">> /\ ~is_mcp -> "handle_server_listing"
      [] resource = <<"server">> /\ method = <<"DELETE">> /\ ~is_mcp -> "handle_server_deletion"
      [] resource = <<"upload-image">> /\ method = <<"POST">> /\ ~is_mcp -> "handle_image_upload"
      [] resource = <<"server">> /\ method = <<"GET">> /\ is_mcp -> "handle_mcp_server_access"
      [] resource = <<"server">> /\ method = <<"POST">> /\ is_mcp -> "handle_mcp_server_access"
      [] OTHER -> ""

\* the steps the router took, for the order of its checks
Routed(outcome, handler, parsed) ==
    [outcome |-> outcome, handler |-> handler, parsed |-> parsed]

\* lines 45-72: the request of an authenticated caller
route(event, auth_context, st, env) ==
    LET path_info == parse_path(event.path) IN
    IF Falsy(path_info.resource)
    THEN Routed(Outcome(Resp(404, ErrorBody("Resource not found")), <<>>, NoRpc, st), "", TRUE)
    ELSE LET ctx == [user_id |-> auth_context.user_id,
                     session_id |-> auth_context.session_id,
                     token_type |-> auth_context.token_type,
                     extracted_session_id |-> path_info.extracted_session_id]
             http_method == IF event.httpMethod = None THEN <<"GET">> ELSE event.httpMethod
             handler == get_handler(path_info.resource, http_method, path_info.is_mcp)
         IN
    CASE handler = "" ->
           Routed(Outcome(Resp(404, ErrorBody("Endpoint not found")), <<>>, NoRpc, st), "", TRUE)
      [] handler = "handle_server_creation" ->
           Routed(handle_server_creation(event, ctx, st, env), handler, TRUE)
      [] handler = "handle_server_listing" ->
           Routed(handle_server_listing(event, ctx, st, env), handler, TRUE)
      [] handler = "handle_server_deletion" ->
           Routed(handle_server_deletion(event, ctx, st, env), handler, TRUE)
      [] handler = "handle_image_upload" ->
           Routed(handle_image_upload(event, ctx, st, env), handler, TRUE)
      [] handler = "handle_mcp_server_access" ->
           Routed(handle_mcp_server_access(event, ctx, st, env), handler, TRUE)

router_unchecked(event, st, env) ==
    route(event, extract_auth_context(event), st, env)

router(event, st, env) ==
    LET auth_context == extract_auth_context(event) IN
    IF Falsy(auth_context.user_id)
    THEN Routed(Outcome(Resp(401, ErrorBody("User ID not found in request context")),
                        <<>>, NoRpc, st), "", FALSE)
    ELSE route(event, auth_context, st, env)

----------------------------------------------------------------------------
(* The state machine.  Every operation is one request served to the end:   *)
(* it starts from last = Idle, leaves in last its inputs and what it did,  *)
(* and Return hands the response back before the next request is served.   *)

Idle == [op |-> "idle"]

State ==
    [store |-> store, active_handlers |-> active_handlers, issued_ids |-> issued_ids,
     now |-> now]

SetState(st) ==
    /\ store' = st.store
    /\ active_handlers' = st.active_handlers
    /\ issued_ids' = st.issued_ids

\* what the environment gives a request: whether the session table answers,
\* and the id and the random part the generators return when they are called
\* a blob store without the key and an interpreter that fails: the
\* environment of the requests that render the text tool
NoBlobNoScript ==
    [s3 |-> [kind |-> "client_error", code |-> "NoSuchKey"], js |-> Raised(<<"error">>)]

NoDraw(db_ok) ==
    [new_id |-> None, random_part |-> None, db_ok |-> db_ok, render |-> NoBlobNoScript]

Draws(db_ok) ==
    {[new_id |-> i, random_part |-> r, db_ok |-> db_ok, render |-> NoBlobNoScript] :
        i \in SessionIdPool \ issued_ids, r \in RandomParts}

Init ==
    /\ store = [s \in SessionIdPool |-> Absent]
    /\ active_handlers = [s \in SessionIdPool |-> NoHandler]
    /\ issued_ids = {}
    /\ auth_cache = {}
    /\ entry = "lambda_handler"
    /\ now = 0
    /\ last = Idle

Return ==
    /\ last # Idle
    /\ last.op # "concurrent"
    /\ last' = Idle
    /\ UNCHANGED <<store, active_handlers, issued_ids, auth_cache, entry, now>>

\* the Lambda container is recycled: the in-process cache starts empty
ColdStart ==
    /\ last = Idle
    /\ \E s \in SessionIdPool : active_handlers[s].loaded
    /\ active_handlers' = [s \in SessionIdPool |-> NoHandler]
    /\ last' = [op |-> "cold_start"]
    /\ UNCHANGED <<store, issued_ids, auth_cache, entry, now>>

\* Inputs of the router.
\* {name: "echo", parameters: {msg: {type: "string"}}, output: Text("hi")}
EchoTool ==
    [name |-> <<"echo">>, description |-> <<"echoes">>,
     parameters |-> <<[name |-> <<"msg">>, type |-> <<"string">>, description |-> <<"m">>]>>,
     output |-> [output_type |-> <<"text">>,
                 output_content |-> << << <<"text">>, PyStr(<<"hi">>) >> >>]]

ServerRequests ==
    {JObj([name |-> <<"srv">>, description |-> <<"d">>, tools |-> <<EchoTool>>]),
     JObj([name |-> <<"srv">>, description |-> <<"d">>, tools |-> <<>>])}

\* EchoTool with another output
ToolWith(output_type, output_content) ==
    [EchoTool EXCEPT !.output = [output_type |-> output_type,
                                 output_content |-> output_content]]

\* requests MCPServerRequest rejects
InvalidServerRequests ==
    {JObj([description |-> <<"d">>, tools |-> <<EchoTool>>]),
     JObj([name |-> <<"srv">>, tools |-> <<EchoTool>>]),
     JObj([name |-> <<>>, description |-> <<"d">>, tools |-> <<EchoTool>>]),
     JObj([name |-> <<"srv">>, description |-> <<>>, tools |-> <<EchoTool>>])}
    \cup {JObj([name |-> <<"srv">>, description |-> <<"d">>, tools |-> <<EchoTool, t>>]) :
             t \in {ToolWith(<<"html">>, << << <<"text">>, PyStr(<<"hi">>) >> >>),
                    ToolWith(<<"text">>, <<>>),
                    ToolWith(<<"text">>, << << <<"text">>, PyStr(<<" ">>) >> >>),
                    ToolWith(<<"image">>, << << <<"s3_bucket">>, PyStr(<<"b">>) >> >>),
                    ToolWith(<<"custom">>, << << <<"flow_type">>, PyStr(<<"javascript">>) >> >>)}}

RpcBodies ==
    {JObj([jsonrpc |-> <<"2.0">>, method |-> <<"notifications/initialized">>]),
     JObj([method |-> <<"tools/call">>,
           params |-> JObj([name |-> <<"echo">>])]),
     JObj([jsonrpc |-> <<"2.0">>, id |-> <<"1">>, method |-> <<"ping">>]),
     JObj([jsonrpc |-> <<"2.0">>, id |-> <<"1">>, method |-> <<"tools/list">>]),
     JObj([jsonrpc |-> <<"2.0">>, id |-> <<"1">>, method |-> <<"tools/call">>,
           params |-> JObj([name |-> <<"echo">>])]),
     JObj([jsonrpc |-> <<"2.0">>, id |-> <<"1">>, method |-> <<"tools/call">>,
           params |-> JObj([name |-> <<"nope">>])]),
     JObj([jsonrpc |-> <<"2.0">>, id |-> <<"1">>, method |-> <<"tools/call">>,
           params |-> JObj([name |-> <<"echo">>, arguments |-> JArray])]),
     JObj([jsonrpc |-> <<"2.0">>, id |-> <<"1">>, method |-> <<"tools/call">>,
           params |-> JObj(<<>>)]),
     JObj([jsonrpc |-> <<"2.0">>, id |-> <<"1">>, method |-> <<"tools/call">>]),
     JObj([jsonrpc |-> <<"1.0">>, id |-> <<"1">>, method |-> <<"ping">>]),
     JObj(<<>>),
     JArray}

JsonHeaders == HeadersMap(<< <<<<"Content-Type">>, <<"application/json">>>> >>)

RpcPayloads ==
    {[headers |-> JsonHeaders, body |-> BodyJson(v)] : v \in RpcBodies}
    \cup {[headers |-> h, body |-> BodyJson(v)] :
             h \in {HeadersMissing, HeadersNull,
                    HeadersMap(<< <<<<"content-type">>, <<"application/json">>>> >>),
                    HeadersMap(<< <<<<"Content-Type">>, <<"text/plain">>>> >>),
                    HeadersMap(<< <<<<"Content-Type">>, <<"application/json; charset=utf-8">>>> >>)},
             v \in {JObj([jsonrpc |-> <<"2.0">>, method |-> <<"notifications/initialized">>]),
                    JObj([jsonrpc |-> <<"2.0">>, id |-> <<"1">>, method |-> <<"ping">>])}}
    \cup {[headers |-> JsonHeaders, body |-> b] :
             b \in {BodyMissing, BodyNull, BodyEmpty, BodyMalformed}}

CreatePayloads ==
    {[headers |-> JsonHeaders, body |-> b] :
        b \in {BodyJson(v) : v \in ServerRequests} \cup {BodyMissing, BodyEmpty, BodyMalformed}}

PingPayload ==
    [headers |-> JsonHeaders,
     body |-> BodyJson(JObj([jsonrpc |-> <<"2.0">>, id |-> <<"1">>, method |-> <<"ping">>]))]

PathOf(segments) == <<"/">> \o Join(segments, "/")

McpPath(resource, session_id) == PathOf(<<resource, session_id, <<"mcp">> >>)

Paths ==
    {<<"/">>, PathOf(<< <<"server">> >>), PathOf(<< <<"servers">> >>),
     PathOf(<< <<"upload-image">> >>)}
    \cup {PathOf(<< <<"server">>, s >>) : s \in SessionIdPool}
    \cup {McpPath(r, s) : r \in {<<"server">>, <<"servers">>}, s \in SessionIdPool}

Methods == {<<"GET">>, <<"POST">>, <<"DELETE">>, None}

\* requestContext.authorizer as a caller of the function can set it
AnyAuthorizer ==
    {AuthorizerMissing, AuthorizerNotDict,
     AuthorizerMap([userId |-> None, sessionId |-> None, tokenType |-> None]),
     AuthorizerMap([userId |-> <<>>, sessionId |-> <<SidSymbols[1]>>, tokenType |-> M2M])}
    \cup {AuthorizerMap([userId |-> u, sessionId |-> s, tokenType |-> t]) :
             u \in Users, s \in SessionIdPool \cup {None}, t \in {M2M, COGNITO, None}}

Event(path, httpMethod, payload, authorizer) ==
    [path |-> path, httpMethod |-> httpMethod, headers |-> payload.headers,
     body |-> payload.body, authorizer |-> authorizer]

\* every authorizer context on every path and method; the creation bodies
\* from a tenant; the protocol bodies from the agent of the session
RouterEvents ==
    {Event(p, m, PingPayload, a) : p \in Paths, m \in Methods, a \in AnyAuthorizer}
    \cup {Event(PathOf(<< <<"server">> >>), <<"POST">>, pl,
                AuthorizerMap([userId |-> u, sessionId |-> None, tokenType |-> COGNITO])) :
             pl \in CreatePayloads, u \in Users}
    \cup {Event(McpPath(<<"server">>, s), <<"POST">>, pl,
                AuthorizerMap([userId |-> u, sessionId |-> s, tokenType |-> M2M])) :
             pl \in RpcPayloads, u \in Users, s \in SessionIdPool}

\* the ways the router can serve the event: the generators are consulted
\* when the request reaches create_server_data without a session id, and the
\* id is then a fresh one
RouterRuns(event, db_ok) ==
    UNION {IF None \in run.outcome.st.issued_ids
           THEN {router(event, State, env) : env \in Draws(db_ok)}
           ELSE {run} :
               run \in {router(event, State, NoDraw(db_ok))}}

\* app.router on an event
Router ==
    /\ last = Idle
    /\ \E event \in RouterEvents, db_ok \in BOOLEAN :
          \E routed \in RouterRuns(event, db_ok) :
              /\ SetState(routed.outcome.st)
              /\ last' = [op |-> "router", event |-> event, db_ok |-> db_ok,
                          before |-> State,
                          handler |-> routed.handler,
                          parsed |-> routed.parsed,
                          response |-> routed.outcome.response,
                          calls |-> routed.outcome.calls,
                          rpc |-> routed.outcome.rpc]
    /\ UNCHANGED <<auth_cache, entry, now>>

\* MCPLambdaHandler.handle_request of a cached engine on an event
HandleRequest ==
    /\ last = Idle
    /\ \E s \in SessionIdPool, payload \in RpcPayloads :
          /\ active_handlers[s].loaded
          /\ LET event == Event(McpPath(<<"server">>, s), <<"POST">>, payload, AuthorizerMissing)
             IN  last' = [op |-> "handle_request", event |-> event, before |-> State,
                          calls |-> <<"handle_request">>,
                          rpc |-> handle_request(active_handlers[s], event, NoBlobNoScript)]
    /\ UNCHANGED <<store, active_handlers, issued_ids, auth_cache, entry, now>>

NextRouter == Router \/ HandleRequest \/ ColdStart \/ Return

SpecRouter == Init /\ [][NextRouter]_vars

----------------------------------------------------------------------------
(* Claims on the router and the protocol engine, under SpecRouter.         *)

InCalls(name) == \E i \in 1..Len(last.calls) : last.calls[i] = name

Context == last.event.authorizer.context

\* the request was routed to a handler with an authorizer context
RoutedTo(handler) ==
    last.op = "router" /\ last.handler = handler /\ last.event.authorizer.kind = "map"

\* C2: a request routed to the tool-invocation handler with an agent
\* credential bound to a session other than the one in the path is answered
\* 403 with the session-mismatch message; load_server is not called and the
\* store and the engine cache stay as they were.
C2_SessionMismatchRejected ==
    (/\ RoutedTo("handle_mcp_server_access")
     /\ Context.tokenType = M2M
     /\ Context.sessionId # parse_path(last.event.path).extracted_session_id)
    => /\ last.response = Resp(403, ErrorBody(TOKEN_SESSION_MISMATCH))
       /\ ~InCalls("load_server")
       /\ last.before = State

\* the agent of session A asks for session B, a stored session of the same
\* owner, and is refused
C2_Witness ==
    /\ RoutedTo("handle_mcp_server_access")
    /\ Context.tokenType = M2M
    /\ Context.sessionId \in SessionIdPool
    /\ LET B == parse_path(last.event.path).extracted_session_id IN
          /\ B \in SessionIdPool
          /\ B # Context.sessionId
          /\ store[B].present
          /\ store[B].user_id = Context.userId
    /\ last.response.statusCode = 403

RequiredClass(handler) == IF handler = "handle_mcp_server_access" THEN M2M ELSE COGNITO

\* C5: a handler's body runs only for the credential class it requires: with
\* a tenant credential load_server never runs, with an agent credential
\* create_server, get_all_servers, delete_server and upload_image never run,
\* and a request of the wrong class is answered 403 with the message of the
\* required class and changes nothing.
C5_ClassEnforced ==
    (last.op = "router" /\ last.handler # "" /\ last.event.authorizer.kind = "map")
    => /\ Context.tokenType = COGNITO => ~InCalls("load_server")
       /\ Context.tokenType = M2M =>
              \A f \in {"create_server", "get_all_servers", "delete_server", "upload_image"} :
                  ~InCalls(f)
       /\ Context.tokenType # RequiredClass(last.handler) =>
              /\ last.response =
                     Resp(403, ErrorBody(IF RequiredClass(last.handler) = COGNITO
                                         THEN USER_AUTH_REQUIRED ELSE SERVER_AUTH_REQUIRED))
              /\ last.calls = <<>>
              /\ last.before = State

\* a tenant asks for the tools of a stored session of their own and is told
\* that server authentication is required
C5_Witness ==
    /\ RoutedTo("handle_mcp_server_access")
    /\ Context.tokenType = COGNITO
    /\ LET B == parse_path(last.event.path).extracted_session_id IN
          B \in SessionIdPool /\ store[B].present /\ store[B].user_id = Context.userId
    /\ last.response = Resp(403, ErrorBody(SERVER_AUTH_REQUIRED))

NoUserId(event) == Falsy(extract_auth_context(event).user_id)

RouteOf(event) ==
    get_handler(parse_path(event.path).resource,
                IF event.httpMethod = None THEN <<"GET">> ELSE event.httpMethod,
                parse_path(event.path).is_mcp)

\* C6: a request without a user id is answered 401 with the path not parsed,
\* no route looked up and no handler run; a request with a user id whose
\* (resource, method, is-mcp) triple is no key of the route table is answered
\* 404 and no handler runs.
C6_RouterOrder ==
    last.op = "router" =>
        /\ NoUserId(last.event) =>
               /\ last.response.statusCode = 401
               /\ ~last.parsed
               /\ last.handler = ""
               /\ last.calls = <<>>
               /\ last.before = State
        /\ (~NoUserId(last.event) /\ RouteOf(last.event) = "") =>
               /\ last.response.statusCode = 404
               /\ last.handler = ""
               /\ last.calls = <<>>
               /\ last.before = State

\* a request on a route of the table, with a credential class and a session
\* but no user id, is answered 401
C6_Witness ==
    /\ last.op = "router"
    /\ NoUserId(last.event)
    /\ last.event.authorizer.kind = "map"
    /\ Context.tokenType = M2M
    /\ RouteOf(last.event) = "handle_mcp_server_access"
    /\ last.response.statusCode = 401

ReachedEngine == last.op \in {"router", "handle_request"} /\ InCalls("handle_request")

ContentType(event) ==
    IF event.headers.kind = "map"
    THEN LowerGet(event.headers.pairs, <<"content-type">>, None)
    ELSE None

Silent ==
    /\ last.rpc.response = Resp(202, EmptyBody)
    /\ last.rpc.dispatched = None
    /\ last.rpc.executed = None
    /\ last.op = "handle_request" => last.before = State

\* C10 as stated: every request handled by handle_request whose body has no
\* 'id' field is answered 202 with an empty body, with nothing dispatched,
\* no tool executed and no state changed.
C10_Original ==
    (/\ ReachedEngine
     /\ last.event.body.kind = "json"
     /\ ~HasKey(last.event.body.value, "id"))
    => Silent

\* C10: every request handled by handle_request whose Content-Type is
\* exactly application/json and whose body is a JSON object with no 'id'
\* field is answered 202 with an empty body; no method is dispatched, no
\* tool is executed, and handle_request changes neither store nor cache.
C10_NotificationSilent ==
    (/\ ReachedEngine
     /\ ContentType(last.event) = <<"application/json">>
     /\ last.event.body.kind = "json"
     /\ IsDict(last.event.body.value)
     /\ ~HasKey(last.event.body.value, "id"))
    => Silent

\* a tools/call for a registered tool, sent without an id, is answered 202
C10_Witness ==
    /\ ReachedEngine
    /\ ContentType(last.event) = <<"application/json">>
    /\ last.event.body.kind = "json"
    /\ IsDict(last.event.body.value)
    /\ ~HasKey(last.event.body.value, "id")
    /\ Get(last.event.body.value, "method") = <<"tools/call">>
    /\ last.rpc.response.statusCode = 202

----------------------------------------------------------------------------
(* The authorizer on its own: sessions are created and their status set    *)
(* in the table, and tokens are presented for method ARNs.                 *)

\* IAM matches a Resource pattern against the ARN of the call, '*' standing
\* for any run of characters
RECURSIVE GlobMatch(_, _)
GlobMatch(pattern, text) ==
    IF pattern = <<>> THEN text = <<>>
    ELSE IF Head(pattern) = "*"
    THEN \E n \in 0..Len(text) : GlobMatch(Tail(pattern), SubSeq(text, n + 1, Len(text)))
    ELSE /\ text # <<>>
         /\ Head(text) = Head(pattern)
         /\ GlobMatch(Tail(pattern), Tail(text))

\* the policy allows the call
Allowed(policy, arn) == \E pattern \in policy.resources : GlobMatch(pattern, arn)

ApiArn == <<"arn:aws:execute-api:us-east-1:123456789012:api1">>

Stages == {<<"prod">>}

\* arn:aws:execute-api:region:account:api/stage/METHOD/path
MethodArn(stage, method, segments) ==
    ApiArn \o <<"/">> \o stage \o <<"/">> \o method \o <<"/">> \o Join(segments, "/")

\* a session id no session was ever stored under
Unknown == <<"zz">>

ResourcePaths ==
    {<< <<"servers">> >>, << <<"server">> >>, << <<"images">> >>}
    \cup {<< <<"servers">>, s >> : s \in SessionIdPool}
    \cup {<< r, s, <<"mcp">> >> : r \in {<<"servers">>, <<"server">>},
                                   s \in SessionIdPool \cup {Unknown}}

HttpMethods == {<<"GET">>, <<"POST">>, <<"DELETE">>}

\* the ARNs the gateway can authorize a call for
MethodArns ==
    {MethodArn(st, <<"POST">>, p) : st \in Stages, p \in ResourcePaths}

\* every resource of the API
Resources ==
    {MethodArn(st, m, p) : st \in Stages, m \in HttpMethods, p \in ResourcePaths}

\* tokens a caller can present as agent credentials: every token the
\* generator can have issued, and texts around the prefix
M2MTokens ==
    {generate_m2m_token(s, u, r) : s \in SessionIdPool, u \in Users, r \in RandomParts}
    \cup {M2M_TOKEN_PREFIX, M2M_TOKEN_PREFIX \o <<"_">>, M2M_TOKEN_PREFIX \o <<"x", "_", "r1">>}

GoodJwt(sub) ==
    Jwt(<<"RS256">>, <<"k1">>, <<"k1">>, <<"9">>, Issuer(USER_POOL_ID), sub, <<"access">>)

\* a well-formed token, one signed by another key, and one that is no JWT
SomeJwts ==
    {GoodJwt(<<"u1">>),
     Jwt(<<"RS256">>, <<"k1">>, <<"k9">>, <<"9">>, Issuer(USER_POOL_ID), <<"u1">>, <<"access">>),
     <<"garbage">>}

AuthHeaders ==
    {<<"Bearer", " ">> \o t : t \in M2MTokens \cup SomeJwts}
    \cup {<<>>, <<"Bearer">>, <<"Bearer", " ">>, <<"bearer", " ">> \o GoodJwt(<<"u1">>),
          <<"Basic", " ">> \o GoodJwt(<<"u1">>)}

\* MCPServerHandler.create_server called for a tenant
CreateServer ==
    /\ last = Idle
    /\ \E user_id \in Users, request \in ServerRequests \cup InvalidServerRequests,
          db_ok \in BOOLEAN :
          \E env \in Draws(db_ok) :
              \E out \in {create_server(request.members, user_id, State,
                                         env.new_id, env.random_part, db_ok)} :
                  /\ SetState(out.st)
                  /\ last' = [op |-> "create_server", user_id |-> user_id,
                              request |-> request.members, response |-> out.response]
    /\ UNCHANGED <<auth_cache, entry, now>>

\* DynamoDBService.update_session(session_id, {'status': ...})
UpdateSession ==
    /\ last = Idle
    /\ \E session_id \in SessionIdPool, status \in {ACTIVE, INACTIVE} :
          /\ store' = update_session(store, session_id, status)
          /\ last' = [op |-> "update_session", session_id |-> session_id]
    /\ UNCHANGED <<active_handlers, issued_ids, auth_cache, entry, now>>

\* m2m_validator.validate_m2m_token
ValidateM2MToken ==
    /\ last = Idle
    /\ \E token \in M2MTokens, session_id \in SessionIdPool \cup {Unknown}, db_ok \in BOOLEAN :
          last' = [op |-> "validate_m2m_token", token |-> token, session_id |-> session_id,
                   db_ok |-> db_ok,
                   user_id |-> validate_m2m_token(token, session_id, store, db_ok)]
    /\ UNCHANGED <<store, active_handlers, issued_ids, auth_cache, entry, now>>

\* token_handler.handle_m2m_token
HandleM2MToken ==
    /\ last = Idle
    /\ \E token \in M2MTokens, method_arn \in MethodArns, db_ok \in BOOLEAN :
          last' = [op |-> "handle_m2m_token", token |-> token, method_arn |-> method_arn,
                   db_ok |-> db_ok,
                   session_id |-> extract_session_id_from_arn(method_arn),
                   out |-> handle_m2m_token(token, method_arn, store, db_ok)]
    /\ UNCHANGED <<store, active_handlers, issued_ids, auth_cache, entry, now>>

\* token_handler.handle_cognito_token
HandleCognitoToken ==
    /\ last = Idle
    /\ \E token \in SomeJwts, method_arn \in MethodArns, jwks_ok \in BOOLEAN :
          last' = [op |-> "handle_cognito_token", token |-> token, method_arn |-> method_arn,
                   jwks_ok |-> jwks_ok,
                   out |-> handle_cognito_token(token, method_arn, USER_POOL_ID, jwks_ok, now)]
    /\ UNCHANGED <<store, active_handlers, issued_ids, auth_cache, entry, now>>

\* app.lambda_handler on a TOKEN authorizer event.  One invocation calls at
\* most one backend (the table for an agent token, the key endpoint for a
\* JWT), so one flag says whether the backend it calls answers.
LambdaHandler ==
    /\ last = Idle
    /\ \E auth_header \in AuthHeaders, method_arn \in MethodArns, backend_ok \in BOOLEAN :
          LET r == lambda_handler(auth_header, method_arn, store, backend_ok,
                                  USER_POOL_ID, backend_ok, now)
          IN  last' = [op |-> "lambda_handler", auth_header |-> auth_header,
                       method_arn |-> method_arn, backend_ok |-> backend_ok,
                       verifier |-> r.verifier, out |-> r.result]
    /\ UNCHANGED <<store, active_handlers, issued_ids, auth_cache, entry, now>>

NextAuthorizer ==
    \/ CreateServer
    \/ UpdateSession
    \/ ValidateM2MToken
    \/ HandleM2MToken
    \/ HandleCognitoToken
    \/ LambdaHandler
    \/ Return

SpecAuthorizer == Init /\ [][NextAuthorizer]_vars

----------------------------------------------------------------------------
(* Claims on the authorizer, under SpecAuthorizer.                         *)

\* the record of the session is there, active, and holds the hash of the token
Verifies(token, session_id) ==
    LET session == GetItem(store, session_id) IN
    IF ~session.present THEN FALSE
    ELSE /\ session.status = ACTIVE
         /\ session.m2m_token_hash # None
         /\ session.m2m_token_hash = Sha256Hex(token)

\* C1: validate_m2m_token returns the owner of the session only when the
\* record exists, its status is 'active' and SHA-256 of the token equals the
\* stored hash; for an absent record, another status, a missing hash or a
\* token other than the issued one it returns no identity, and
\* handle_m2m_token fails with Unauthorized.
C1_OnlyIssuedTokenOfActiveSession ==
    /\ last.op = "validate_m2m_token" =>
           /\ last.user_id # None =>
                  /\ Verifies(last.token, last.session_id)
                  /\ last.user_id = GetItem(store, last.session_id).user_id
           /\ ~Verifies(last.token, last.session_id) => last.user_id = None
           /\ (GetItem(store, last.session_id).present
                  /\ last.token # GetItem(store, last.session_id).m2m_token)
              => last.user_id = None
    /\ last.op = "handle_m2m_token" =>
           (~Verifies(last.token, last.session_id) => last.out = Raise(UNAUTHORIZED))

\* the issued token of an active session is validated to its owner
C1_Witness ==
    /\ last.op = "validate_m2m_token"
    /\ last.user_id \in Users
    /\ last.token = GetItem(store, last.session_id).m2m_token

PathParts(arn) == Split(arn, "/")

\* arn:...:api/stage/METHOD/servers/<id>/mcp
IsToolInvocation(arn) ==
    LET parts == PathParts(arn) IN
    Len(parts) = 6 /\ parts[4] = <<"servers">> /\ parts[6] = <<"mcp">>

\* list-servers, create-server, delete-server, upload-image
IsManagement(arn) ==
    LET parts == PathParts(arn) IN
    \/ Len(parts) = 4 /\ parts[4] = <<"servers">> /\ parts[3] \in {<<"GET">>, <<"POST">>}
    \/ Len(parts) = 5 /\ parts[4] = <<"servers">> /\ parts[3] = <<"DELETE">>
    \/ Len(parts) = 4 /\ parts[4] = <<"images">> /\ parts[3] = <<"POST">>

TenantGrant(method_arn) == create_cognito_auth_policy(None, method_arn, None)

AgentGrant(method_arn) == create_m2m_auth_policy(None, method_arn, None)

\* C4: with '*' matching any character sequence, no resource the tenant
\* grant matches is a tool-invocation resource servers/<id>/mcp, no resource
\* the agent grant matches is a list, create, delete or upload resource, and
\* no resource is matched by both grants.
C4_GrantsDisjoint ==
    (last.op \in {"handle_cognito_token", "handle_m2m_token"} /\ ~last.out.raised)
    => \A arn \in Resources :
           /\ (last.op = "handle_cognito_token" /\ Allowed(last.out, arn))
              => ~IsToolInvocation(arn)
           /\ (last.op = "handle_m2m_token" /\ Allowed(last.out, arn))
              => ~IsManagement(arn)
           /\ ~(Allowed(TenantGrant(last.method_arn), arn)
                   /\ Allowed(AgentGrant(last.method_arn), arn))

BearerToken(auth_header) == Split(auth_header, " ")[2]

HoldsToken(auth_header) ==
    StartsWith(auth_header, <<"Bearer", " ">>) /\ BearerToken(auth_header) # <<>>

\* C7: lambda_handler takes a bearer token to the M2M verification exactly
\* when the token starts with 'mcp_m2m_' and to the JWT verification
\* otherwise; every token generate_m2m_token produced at a server's creation
\* is classified as an agent credential.
C7_ClassifiedByPrefix ==
    /\ (last.op = "lambda_handler" /\ HoldsToken(last.auth_header)) =>
           /\ last.verifier = "m2m"
                  <=> StartsWith(BearerToken(last.auth_header), <<"mcp_m2m", "_">>)
           /\ last.verifier = "cognito"
                  <=> ~StartsWith(BearerToken(last.auth_header), <<"mcp_m2m", "_">>)
    /\ \A s \in SessionIdPool :
           (store[s].present /\ store[s].m2m_token # None)
           => ClassifyToken(store[s].m2m_token) = "m2m"
    /\ (last.op = "create_server" /\ last.response.statusCode = 201)
           => ClassifyToken(last.response.body.m2m_token) = "m2m"

\* the token issued for a stored session is presented and takes the M2M branch
C7_Witness ==
    /\ last.op = "lambda_handler"
    /\ HoldsToken(last.auth_header)
    /\ \E s \in SessionIdPool :
           store[s].present /\ store[s].m2m_token = BearerToken(last.auth_header)
    /\ last.verifier = "m2m"

AuthorizerOps == {"lambda_handler", "handle_m2m_token", "handle_cognito_token"}

\* C9: every failed authorization, whatever its cause and credential class,
\* returns the same outcome: the error 'Unauthorized', with no policy,
\* principal or context.
C9_FailuresIndistinguishable ==
    (last.op \in AuthorizerOps /\ last.out.raised) => last.out = Raise(UNAUTHORIZED)

\* the issued token of a session whose status is not 'active' is refused,
\* and so is a token for a session that was never stored
C9_Witness ==
    /\ last.op = "handle_m2m_token"
    /\ last.out.raised
    /\ \E s \in SessionIdPool :
           /\ store[s].present
           /\ store[s].status = INACTIVE
           /\ store[s].m2m_token = last.token
           /\ last.session_id = s

----------------------------------------------------------------------------
(* The Cognito validator on every token the fields below make, while time  *)
(* passes.                                                                 *)

ExpValues == {None} \cup {<<Digits[n + 1]>> : n \in 0..(MaxTime + 1)}

\* the fields of a token: header alg and kid, the key that signed it, and
\* the claims exp, iss, sub and token_use (<<>>: the field is not there)
JwtFields ==
    [alg : {<<"RS256">>, <<"HS256">>},
     kid : {<<"k1">>, <<"k9">>, <<>>},
     signer : {<<"k1">>, <<"k9">>},
     exp : ExpValues,
     iss : {Issuer(USER_POOL_ID), <<"https://evil.example/">> \o USER_POOL_ID},
     sub : {<<"u1">>, <<>>},
     token_use : {<<"access">>, <<"id">>, <<"refresh">>, <<>>}]

Encode(c) == Jwt(c.alg, c.kid, c.signer, c.exp, c.iss, c.sub, c.token_use)

\* the USER_POOL_ID of the environment, set or not
PoolIds == {USER_POOL_ID, <<>>}

Tick ==
    /\ last = Idle
    /\ now < MaxTime
    /\ now' = now + 1
    /\ UNCHANGED <<store, active_handlers, issued_ids, auth_cache, entry, last>>

\* cognito_validator.validate_cognito_token
ValidateCognitoToken ==
    /\ last = Idle
    /\ \E c \in JwtFields, user_pool_id \in PoolIds, jwks_ok \in BOOLEAN :
          last' = [op |-> "validate_cognito_token", fields |-> c,
                   user_pool_id |-> user_pool_id, jwks_ok |-> jwks_ok,
                   user_id |-> validate_cognito_token(Encode(c), user_pool_id, jwks_ok, now)]
    /\ UNCHANGED <<store, active_handlers, issued_ids, auth_cache, entry, now>>

\* token_handler.handle_cognito_token on the same tokens
HandleCognitoJwt ==
    /\ last = Idle
    /\ \E c \in JwtFields, user_pool_id \in PoolIds, jwks_ok \in BOOLEAN :
          last' = [op |-> "handle_cognito_token", fields |-> c,
                   user_pool_id |-> user_pool_id, jwks_ok |-> jwks_ok,
                   out |-> handle_cognito_token(Encode(c),
                                                MethodArn(<<"prod">>, <<"GET">>, << <<"servers">> >>),
                                                user_pool_id, jwks_ok, now)]
    /\ UNCHANGED <<store, active_handlers, issued_ids, auth_cache, entry, now>>

NextCognito == ValidateCognitoToken \/ HandleCognitoJwt \/ Tick \/ Return

SpecCognito == Init /\ [][NextCognito]_vars

\* what the claim asks of a token, read off its fields
Acceptable(c, user_pool_id, jwks_ok) ==
    /\ user_pool_id # <<>>
    /\ jwks_ok
    /\ c.kid \in PublishedKids
    /\ c.alg = <<"RS256">>
    /\ c.signer = c.kid
    /\ c.exp = None \/ ParseInt(c.exp) > now
    /\ c.iss = Issuer(user_pool_id)
    /\ c.sub # <<>>
    /\ c.token_use \in {<<"access">>, <<"id">>}

\* C8: validate_cognito_token returns the subject only when the key id is a
\* published key, the RS256 signature verifies under it, the token is not
\* expired, the issuer is the pool's URL, 'sub' is present and token_use is
\* 'access' or 'id'; when one of these fails, or the keys cannot be fetched,
\* it returns no subject and handle_cognito_token fails with Unauthorized.
C8_CognitoSubjectOnlyWhenValid ==
    /\ last.op = "validate_cognito_token" =>
           IF Acceptable(last.fields, last.user_pool_id, last.jwks_ok)
           THEN last.user_id = last.fields.sub
           ELSE last.user_id = None
    /\ (last.op = "handle_cognito_token" /\ "fields" \in DOMAIN last) =>
           IF Acceptable(last.fields, last.user_pool_id, last.jwks_ok)
           THEN ~last.out.raised /\ last.out.principalId = last.fields.sub
           ELSE last.out = Raise(UNAUTHORIZED)

\* a token that expires later is accepted after time has passed
C8_Witness ==
    /\ last.op = "validate_cognito_token"
    /\ now > 0
    /\ last.fields.exp # None
    /\ last.fields.token_use = <<"id">>
    /\ last.user_id = <<"u1">>

----------------------------------------------------------------------------
(* The system behind the API gateway: a request carries an Authorization   *)
(* header; the gateway runs the authorizer (or takes its cached result for *)
(* the same header), matches the policy against the ARN of the call, and   *)
(* invokes the router with the authorizer's context attached.              *)

\* the authorizer assembled from token_handler.py: the header is stripped
\* and classified as in lambda_handler, and the token handled by class
token_handler_entry(auth_header, method_arn, tbl, db_ok, user_pool_id, jwks_ok, t) ==
    IF ~StartsWith(auth_header, <<"Bearer", " ">>) THEN Raise(UNAUTHORIZED)
    ELSE LET token == Split(auth_header, " ")[2] IN
         IF token = <<>> THEN Raise(UNAUTHORIZED)
         ELSE IF ClassifyToken(token) = "m2m"
         THEN handle_m2m_token(token, method_arn, tbl, db_ok)
         ELSE handle_cognito_token(token, method_arn, user_pool_id, jwks_ok, t)

Authorizer(auth_header, method_arn, db_ok) ==
    IF entry = "lambda_handler"
    THEN lambda_handler(auth_header, method_arn, store, db_ok, USER_POOL_ID, TRUE, now).result
    ELSE token_handler_entry(auth_header, method_arn, store, db_ok, USER_POOL_ID, TRUE, now)

\* the sessions whose stored hash is the hash of the token in the header,
\* at the time the authorizer runs
MatchedSessions(auth_header) ==
    {s \in SessionIdPool :
        /\ store[s].present
        /\ StartsWith(auth_header, <<"Bearer", " ">>)
        /\ store[s].m2m_token_hash = Sha256Hex(Split(auth_header, " ")[2])}

\* a token nobody was issued: the token of the first session with another
\* random part
ForgedToken == generate_m2m_token(<<SidSymbols[1]>>, <<"u1">>, <<"r0">>)

GatewayHeaders ==
    {<<"Bearer", " ">> \o t :
        t \in {store[s].m2m_token : s \in {x \in SessionIdPool : store[x].present}}
              \cup {ForgedToken} \cup {GoodJwt(u) : u \in Users}}

CreatePayload ==
    [headers |-> JsonHeaders,
     body |-> BodyJson(JObj([name |-> <<"srv">>, description |-> <<"d">>,
                             tools |-> <<EchoTool>>]))]

CallPayload ==
    [headers |-> JsonHeaders,
     body |-> BodyJson(JObj([jsonrpc |-> <<"2.0">>, id |-> <<"1">>,
                             method |-> <<"tools/call">>,
                             params |-> JObj([name |-> <<"echo">>])]))]

\* the calls a client makes: the path and what it sends there
GatewayCalls ==
    {[segments |-> << <<"server">> >>, payload |-> CreatePayload]}
    \cup {[segments |-> << r, s, <<"mcp">> >>, payload |-> CallPayload] :
             r \in {<<"server">>, <<"servers">>}, s \in SessionIdPool}

RequestArn(method, segments) == MethodArn(<<"prod">>, method, segments)

GatewayDenied(status, auth_header, method, segments, grant) ==
    [op |-> "request", auth_header |-> auth_header, method |-> method,
     path |-> PathOf(segments), grant |-> grant, from_cache |-> grant \in auth_cache,
     handler |-> "", response |-> Resp(status, [kind |-> "gateway"]),
     calls |-> <<>>, rpc |-> NoRpc]

InitSystem ==
    /\ store = [s \in SessionIdPool |-> Absent]
    /\ active_handlers = [s \in SessionIdPool |-> NoHandler]
    /\ issued_ids = {}
    /\ auth_cache = {}
    /\ entry \in {"lambda_handler", "token_handler"}
    /\ now = 0
    /\ last = Idle

\* the authorizer's result for the request: the cached one for the header,
\* or a new one, with the sessions the token matched when it was made
Grants(auth_header, method_arn, db_ok) ==
    LET hit == {e \in auth_cache : e.auth_header = auth_header} IN
    IF hit # {} THEN hit
    ELSE {[auth_header |-> auth_header,
           out |-> Authorizer(auth_header, method_arn, db_ok),
           matched |-> MatchedSessions(auth_header)]}

\* one request through the gateway
Request ==
    /\ last = Idle
    /\ \E auth_header \in GatewayHeaders, method \in {<<"GET">>, <<"POST">>},
          call \in GatewayCalls, db_ok \in BOOLEAN, keep \in BOOLEAN :
          \E grant \in Grants(auth_header, RequestArn(method, call.segments), db_ok) :
              IF grant.out.raised
              THEN /\ last' = GatewayDenied(401, auth_header, method, call.segments, grant)
                   /\ UNCHANGED <<store, active_handlers, issued_ids, auth_cache>>
              ELSE /\ auth_cache' = IF keep /\ Cardinality(auth_cache) < MaxCached
                                    THEN auth_cache \cup {grant} ELSE auth_cache
                   /\ IF ~Allowed(grant.out, RequestArn(method, call.segments))
                      THEN /\ last' = GatewayDenied(403, auth_header, method, call.segments, grant)
                           /\ UNCHANGED <<store, active_handlers, issued_ids>>
                      ELSE \E routed \in RouterRuns(Event(PathOf(call.segments), method, call.payload,
                                                          AuthorizerMap(grant.out.context)),
                                                    db_ok) :
                               /\ SetState(routed.outcome.st)
                               /\ last' = [op |-> "request", auth_header |-> auth_header,
                                           method |-> method, path |-> PathOf(call.segments),
                                           grant |-> grant, from_cache |-> grant \in auth_cache,
                                           handler |-> routed.handler,
                                           response |-> routed.outcome.response,
                                           calls |-> routed.outcome.calls,
                                           rpc |-> routed.outcome.rpc]
    /\ UNCHANGED <<entry, now>>

\* a cached authorizer result reaches the end of its TTL
CacheExpire ==
    /\ last = Idle
    /\ \E e \in auth_cache : auth_cache' = auth_cache \ {e}
    /\ UNCHANGED <<store, active_handlers, issued_ids, entry, now, last>>

Next == Request \/ CreateServer \/ CacheExpire \/ ColdStart \/ Return

Spec == InitSystem /\ [][Next]_vars

\* C3: whenever the protocol engine of a session S handles a request, the
\* credential attached to the request is an agent credential, its token's
\* hash was the stored hash of S when the authorizer verified it (now or
\* when the cached result was made), and S is the session named in the path
\* of the request and the session the credential is bound to.
C3_EngineOnlyForVerifiedSession ==
    (last.op = "request" /\ InCalls("handle_request")) =>
        /\ last.grant.out.context.tokenType = M2M
        /\ last.rpc.engine \in last.grant.matched
        /\ last.rpc.engine = parse_path(last.path).extracted_session_id
        /\ last.rpc.engine = last.grant.out.context.sessionId

\* a cached authorizer result is attached to a later request, whose tool the
\* engine of the session executes
C3_Witness ==
    /\ last.op = "request"
    /\ last.from_cache
    /\ InCalls("handle_request")
    /\ last.rpc.executed = <<"echo">>
    /\ last.rpc.engine \in SessionIdPool

----------------------------------------------------------------------------
(* The protocol engine of one server, under SpecEngine: a server is        *)
(* created from a validated request and its engine serves one JSON-RPC     *)
(* request.  The request is received, and answered when the call of the    *)
(* engine comes back.                                                      *)

Parameter(name) == [name |-> name, type |-> <<"string">>, description |-> <<"p">>]

Text(text) ==
    [output_type |-> <<"text">>, output_content |-> << << <<"text">>, PyStr(text) >> >>]

Image(s3_key) ==
    [output_type |-> <<"image">>, output_content |-> << << <<"s3_key">>, PyStr(s3_key) >> >>]

Script(flow_type, configuration) ==
    [output_type |-> <<"custom">>,
     output_content |-> << << <<"flow_type">>, PyStr(flow_type) >>,
                           << <<"configuration">>, PyStr(configuration) >> >>]

Tool(name, parameters, output) ==
    [name |-> name, description |-> <<"t">>, parameters |-> parameters, output |-> output]

\* texts of a Text tool: plain, a number, and JSON documents with a 'type'
ImageJson ==
    Dumps(PyDict(<< << <<"type">>, PyStr(<<"image">>) >>, << <<"s3_key">>, PyStr(<<"k">>) >> >>))

CustomJson == Dumps(PyDict(<< << <<"type">>, PyStr(<<"custom">>) >> >>))

CustomFlowJson ==
    Dumps(PyDict(<< << <<"type">>, PyStr(<<"custom_flow">>) >>,
                    << <<"flow_type">>, PyStr(<<"javascript">>) >>,
                    << <<"configuration">>, PyStr(<<"output", "=", "1">>) >> >>))

OtherJson == Dumps(PyDict(<< << <<"type">>, PyStr(<<"text">>) >> >>))

Texts == {<<"hi">>, <<"42">>, <<"{", "hi">>, ImageJson, CustomJson, CustomFlowJson, OtherJson}

ToolNamePool == {<<"echo">>, <<"get", "_", "data">>, <<"get", "Data">>}

ParameterLists ==
    {<<>>, <<Parameter(<<"msg">>)>>, <<Parameter(<<"msg">>), Parameter(<<"n">>)>>,
     <<Parameter(<<"return">>)>>}

Outputs ==
    {Text(t) : t \in Texts}
    \cup {Image(<<"k">>)}
    \cup {Script(<<"javascript">>, <<"output", "=", "1">>), Script(<<"python">>, <<"x">>),
          Script(<<"javascript">>, <<>>)}

\* the registry is exercised with every name and parameter list, the
\* renderer with every output
ToolDefinitions ==
    {Tool(n, p, Text(<<"hi">>)) : n \in ToolNamePool, p \in ParameterLists}
    \cup {Tool(<<"echo">>, <<Parameter(<<"msg">>)>>, o) : o \in Outputs}

ToolLists ==
    {<<t>> : t \in ToolDefinitions}
    \cup {<<t1, t2>> : t1 \in {Tool(n, <<>>, Text(<<"hi">>)) : n \in ToolNamePool},
                       t2 \in {Tool(n, p, Text(<<"42">>)) :
                                  n \in ToolNamePool, p \in {<<>>, <<Parameter(<<"msg">>)>>}}}

\* creation requests; one with a blank text, which validation refuses
EngineServerRequests ==
    {[name |-> <<"srv">>, description |-> <<"d">>, tools |-> tl] : tl \in ToolLists}
    \cup {[name |-> <<"srv">>, description |-> <<"d">>,
           tools |-> <<Tool(<<"echo">>, <<>>, Text(<<" ">>))>>]}

ListBody == JObj([jsonrpc |-> <<"2.0">>, id |-> <<"1">>, method |-> <<"tools/list">>])

CallBody(params) ==
    JObj([jsonrpc |-> <<"2.0">>, id |-> <<"1">>, method |-> <<"tools/call">>, params |-> params])

CalledNames == {<<"echo">>, <<"get", "_", "data">>, <<"get", "Data">>, <<"nope">>, <<>>}

\* well-formed calls: params.name a string, params.arguments a dict or left out
WellFormedCalls ==
    {CallBody(JObj([name |-> n, arguments |-> a])) :
        n \in CalledNames, a \in {JObj(<<>>), JObj([msg |-> <<"x">>])}}
    \cup {CallBody(JObj([name |-> n])) : n \in CalledNames}

EngineBodies ==
    WellFormedCalls
    \cup {ListBody, CallBody(JObj([name |-> <<"echo">>, arguments |-> JArray]))}

\* what the blob store and the interpreter can do
S3Answers ==
    {[kind |-> "object", content_type |-> <<"image/png">>],
     [kind |-> "client_error", code |-> "NoSuchKey"],
     [kind |-> "client_error", code |-> "AccessDenied"],
     [kind |-> "client_error", code |-> "404"],
     [kind |-> "error"]}

JsRuns ==
    {Returned(PyStr(<<"ok">>)), Returned(PyStr(<<"42">>)), Returned(PyNum("1")),
     Returned(PyNone), Raised(<<"SyntaxError">>), Raised(<<"ReferenceError">>), NeverReturns}

Renders == {[s3 |-> a, js |-> j] : a \in S3Answers, j \in JsRuns}

EngineEvent(body) ==
    Event(McpPath(<<"server">>, <<SidSymbols[1]>>), <<"POST">>,
          [headers |-> JsonHeaders, body |-> BodyJson(body)], AuthorizerMissing)

\* the engine create_server_data builds for the request
EngineOf(request) ==
    create_server_data(request, <<"u1">>, <<SidSymbols[1]>>, <<"r1">>, 0).mcp_handler

\* a request reaches the engine of a server created from a validated request
EngineReceive ==
    /\ last = Idle
    /\ \E request \in EngineServerRequests, body \in EngineBodies, render \in Renders :
          /\ ValidRequest(request)
          /\ last' = [op |-> "engine_received", request |-> request,
                      event |-> EngineEvent(body), render |-> render]
    /\ UNCHANGED <<store, active_handlers, issued_ids, auth_cache, entry, now>>

\* handle_request comes back with its response
EngineRespond ==
    /\ last # Idle
    /\ last.op = "engine_received"
    /\ \E engine \in {EngineOf(last.request)} :
       \E rpc \in {handle_request(engine, last.event, last.render)} :
           /\ rpc.response # Pending
           /\ last' = [op |-> "engine_responded", request |-> last.request,
                       event |-> last.event, render |-> last.render, engine |-> engine,
                       listed |-> handle_request(engine, EngineEvent(ListBody), last.render),
                       rpc |-> rpc]
    /\ UNCHANGED <<store, active_handlers, issued_ids, auth_cache, entry, now>>

\* the response is handed back
EngineReturn ==
    /\ last # Idle
    /\ last.op = "engine_responded"
    /\ last' = Idle
    /\ UNCHANGED <<store, active_handlers, issued_ids, auth_cache, entry, now>>

NextEngine == EngineReceive \/ EngineRespond \/ EngineReturn

SpecEngine == Init /\ [][NextEngine]_vars

\* the body of the request the engine answered
CallParams == last.event.body.value.members.params

IsToolsCall ==
    /\ last.op = "engine_responded"
    /\ Get(last.event.body.value, "method") = <<"tools/call">>

\* the names in the result of tools/list on the same engine
ListedNames ==
    {last.listed.response.body.result.tools[i].name :
        i \in 1..Len(last.listed.response.body.result.tools)}

IsError(response, code) == response.body.kind = "rpc_error" /\ response.body.code = code

\* C11: on every engine, a well-formed tools/call whose params.name is one of
\* the names tools/list returns on that engine is never answered with the
\* MethodNotFound error (-32601); with any other name it is always answered
\* with -32601 and no tool function is executed.
C11_ListedNamesAreCallable ==
    (IsToolsCall /\ last.event.body.value \in WellFormedCalls) =>
        IF Get(CallParams, "name") \in ListedNames
        THEN ~IsError(last.rpc.response, -32601)
        ELSE IsError(last.rpc.response, -32601) /\ last.rpc.executed = None

\* a call under the camelCase name the list gives a tool is answered with
\* content
C11_Witness ==
    /\ IsToolsCall
    /\ Get(CallParams, "name") = <<"get", "Data">>
    /\ <<"get", "Data">> \in ListedNames
    /\ last.rpc.response.body.kind = "rpc_result"
    /\ last.rpc.executed = <<"get", "Data">>

ListedSchemas == last.listed.response.body.result.tools

DeclaredParameters(tool) == {tool.parameters[k].name : k \in 1..Len(tool.parameters)}

RequiredSet(doc) == {doc.inputSchema.required[j] : j \in 1..Len(doc.inputSchema.required)}

\* C12: for every creation request validation accepts, with N tool
\* definitions, tools/list on the engine built from it returns exactly N schema
\* documents, the i-th for the i-th definition, and the required set of each
\* document is exactly the set of the parameter names its tool declares.
C12_OneSchemaPerTool ==
    last.op = "engine_responded" =>
        /\ Len(ListedSchemas) = Len(last.request.tools)
        /\ \A i \in 1..Len(last.request.tools) :
               i <= Len(ListedSchemas) =>
                   RequiredSet(ListedSchemas[i]) = DeclaredParameters(last.request.tools[i])

\* the definition of the tool the call executed
ExecutedTool == ToolImplementation(last.engine, last.rpc.executed).tool_def

Executed(output_type) ==
    /\ IsToolsCall
    /\ last.rpc.executed # None
    /\ ExecutedTool.output.output_type = output_type

ConfiguredText == DictGet(ExecutedTool.output.output_content, <<"text">>, PyNone).v

\* C13: for every Text tool with configured text t and every argument map,
\* the rendered result of a call is exactly one text content block whose text
\* is t verbatim, also when t is a JSON document such as an object whose
\* 'type' is 'image', 'custom' or 'custom_flow': the output kind is the one
\* of the tool definition, never one inferred from the returned value.
C13_TextVerbatim ==
    Executed(<<"text">>) =>
        /\ last.rpc.response.body.kind = "rpc_result"
        /\ last.rpc.response.body.result.content = <<TextContent(ConfiguredText)>>

FetchFails == last.render.s3.kind # "object"

\* C14: for every Image tool call in which the blob fetch fails (the key is
\* absent, access is denied, or any other store error), the content is exactly
\* one text block whose text begins 'Error loading image: ', and the JSON-RPC
\* envelope of the call is a success result, not an error.
C14_ImageFetchFailureIsText ==
    (Executed(<<"image">>) /\ FetchFails) =>
        /\ last.rpc.response.statusCode = 200
        /\ last.rpc.response.body.kind = "rpc_result"
        /\ Len(last.rpc.response.body.result.content) = 1
        /\ last.rpc.response.body.result.content[1].type = "text"
        /\ StartsWith(last.rpc.response.body.result.content[1].text,
                      <<"Error loading image: ">>)

\* an Image tool is called while the store has no such key
C14_Witness ==
    /\ Executed(<<"image">>)
    /\ last.render.s3 = [kind |-> "client_error", code |-> "NoSuchKey"]
    /\ last.rpc.response.body.kind = "rpc_result"
    /\ last.rpc.response.body.result.content[1].type = "text"

\* C15: every Script tool call that comes back, and so every one in which an
\* exception is raised while the script is prepared or executed (a syntax
\* error, a runtime error), the flow type is unsupported or the source is
\* missing, ends inside the renderer in a non-empty list of text content
\* blocks: the call is answered with a success result, never with a JSON-RPC
\* error envelope.
C15_ScriptFailureIsText ==
    Executed(<<"custom">>) =>
        /\ last.rpc.response.statusCode = 200
        /\ last.rpc.response.body.kind = "rpc_result"
        /\ Len(last.rpc.response.body.result.content) >= 1
        /\ \A i \in 1..Len(last.rpc.response.body.result.content) :
               last.rpc.response.body.result.content[i].type = "text"

\* the interpreter raises on the code of a javascript tool
C15_Witness ==
    /\ Executed(<<"custom">>)
    /\ last.render.js = Raised(<<"SyntaxError">>)
    /\ DictGet(ExecutedTool.output.output_content, <<"flow_type">>, PyNone)
           = PyStr(<<"javascript">>)
    /\ StartsWith(last.rpc.response.body.result.content[1].text,
                  <<"Error executing custom flow: ", "JavaScript execution failed: ">>)

\* The calls of script tools, under SpecScript: servers of one tool, called
\* while the interpreter returns, raises or does not come back.
ScriptServerRequests ==
    {[name |-> <<"srv">>, description |-> <<"d">>,
      tools |-> <<Tool(<<"echo">>, <<Parameter(<<"msg">>)>>, o)>>] :
        o \in {Script(<<"javascript">>, <<"output", "=", "1">>),
               Script(<<"javascript">>, <<"while", "(", "true", ")", "{", "}">>),
               Script(<<"python">>, <<"x">>), Script(<<"javascript">>, <<>>),
               Text(<<"hi">>), Text(CustomFlowJson)}}

ScriptBodies ==
    {ListBody, CallBody(JObj([name |-> <<"nope">>]))}
    \cup {CallBody(JObj([name |-> <<"echo">>, arguments |-> a])) :
              a \in {JObj(<<>>), JObj([msg |-> <<"x">>])}}

\* the engine is called with a request: handle_request runs synchronously, and
\* rpc is what the call returns, if it returns
ScriptStart ==
    /\ last = Idle
    /\ \E request \in ScriptServerRequests, body \in ScriptBodies, js \in JsRuns :
          /\ ValidRequest(request)
          /\ \E engine \in {EngineOf(request)},
                render \in {[s3 |-> [kind |-> "error"], js |-> js]} :
                 last' = [op |-> "engine_running", request |-> request,
                          event |-> EngineEvent(body), render |-> render,
                          engine |-> engine,
                          listed |-> handle_request(engine, EngineEvent(ListBody), render),
                          rpc |-> handle_request(engine, EngineEvent(body), render)]
    /\ UNCHANGED <<store, active_handlers, issued_ids, auth_cache, entry, now>>

\* handle_request returns, when the work it called comes back
ScriptRespond ==
    /\ last # Idle
    /\ last.op = "engine_running"
    /\ last.rpc.response # Pending
    /\ last' = [last EXCEPT !.op = "engine_responded"]
    /\ UNCHANGED <<store, active_handlers, issued_ids, auth_cache, entry, now>>

NextScript == ScriptStart \/ ScriptRespond \/ EngineReturn

\* a call that can return does, and its response is handed back
SpecScript ==
    Init /\ [][NextScript]_vars /\ WF_vars(ScriptRespond) /\ WF_vars(EngineReturn)

\* the request being handled is a tools/call that executes a Script tool
ScriptCallRunning ==
    /\ last # Idle
    /\ last.op = "engine_running"
    /\ LET body == last.event.body.value
       IN  /\ Get(body, "method") = <<"tools/call">>
           /\ ParamsTruthy(body)
           /\ Get(body.members.params, "name") \in ToolNames(last.engine)
           /\ ArgumentsIterable(body.members.params)
           /\ ToolImplementation(last.engine, Get(body.members.params, "name"))
                  .tool_def.output.output_type = <<"custom">>

\* C16: every tools/call on a Script tool eventually produces a response: the
\* execution of the script is cut off by an enforced time bound, so a script
\* that never terminates by itself still ends in a rendered result.
C16_ScriptCallAnswered == ScriptCallRunning ~> (last.op = "engine_responded")

\* the call names a registered tool and its 'arguments' is no map, so that
\* the conversion of the arguments raises
ConversionRaises ==
    /\ IsToolsCall
    /\ ParamsTruthy(last.event.body.value)
    /\ Get(CallParams, "name") \in {last.engine.tools[i].name : i \in 1..Len(last.engine.tools)}
    /\ HasKey(CallParams, "arguments")
    /\ ~IsDict(Get(CallParams, "arguments"))

\* C24: every tools/call on a registered tool name in which the conversion of
\* the arguments or the tool function raises is answered with an error
\* envelope of code -32603 and status 500 that carries the id of the request
\* and an errorContent block with the error text; never with a success result
\* and never with a parse error.
C24_ExecutionErrorEnvelope ==
    ConversionRaises =>
        /\ IsError(last.rpc.response, -32603)
        /\ last.rpc.response.statusCode = 500
        /\ last.rpc.response.body.id = Get(last.event.body.value, "id")
        /\ Len(last.rpc.response.body.errorContent) = 1
        /\ last.rpc.response.body.errorContent[1].text # <<>>

C24_Witness ==
    /\ ConversionRaises
    /\ IsError(last.rpc.response, -32603)
    /\ last.rpc.response.body.errorContent[1].type = "error"
    /\ last.rpc.executed = None

----------------------------------------------------------------------------
(* Claims on the session records and the server operations, under          *)
(* SpecRouter.                                                             *)

\* the raw tokens a response body carries
ResponseTokens(body) ==
    IF body.kind = "created" THEN {body.m2m_token}
    ELSE IF body.kind = "list" THEN {srv.m2m_token : srv \in body.servers} \ {None}
    ELSE {}

\* the raw tokens of the sessions in the store: the values whose hash is the
\* stored hash
IsRawToken(token) ==
    \E s \in SessionIdPool :
        store[s].present /\ store[s].m2m_token_hash = hash_token(token)

\* C17: the raw agent token is disclosed only in the response of the
\* create-server call that generated it: the persisted session record holds
\* the hash and no plaintext token, and no response other than that of a
\* creation contains a raw token.
C17_RawTokenOnlyAtCreation ==
    /\ \A s \in SessionIdPool : store[s].present => store[s].m2m_token = None
    /\ (last.op = "router" /\ last.handler # "handle_server_creation") =>
           \A token \in ResponseTokens(last.response.body) : ~IsRawToken(token)

\* The operations of MCPServerHandler called one after another, under
\* SpecServers.
ServerEvents ==
    {Event(McpPath(<<"server">>, s), <<"POST">>, payload, AuthorizerMissing) :
        s \in SessionIdPool, payload \in {PingPayload, CallPayload}}

\* MCPServerHandler.load_server
LoadServer ==
    /\ last = Idle
    /\ \E session_id \in SessionIdPool, user_id \in Users, event \in ServerEvents,
          random_part \in RandomParts, db_ok \in BOOLEAN :
          \E out \in {load_server(session_id, user_id, event, State, random_part, db_ok,
                                 NoBlobNoScript)} :
              /\ SetState(out.st)
              /\ last' = [op |-> "load_server", session_id |-> session_id,
                          user_id |-> user_id, event |-> event,
                          random_part |-> random_part, db_ok |-> db_ok,
                          before |-> State, response |-> out.response,
                          calls |-> out.calls]
    /\ UNCHANGED <<auth_cache, entry, now>>

\* MCPServerHandler.get_all_servers
GetAllServers ==
    /\ last = Idle
    /\ \E user_id \in Users, db_ok \in BOOLEAN :
          \E out \in {get_all_servers(user_id, State, db_ok)} :
              /\ SetState(out.st)
              /\ last' = [op |-> "get_all_servers", user_id |-> user_id, db_ok |-> db_ok,
                          before |-> State, response |-> out.response]
    /\ UNCHANGED <<auth_cache, entry, now>>

\* MCPServerHandler.delete_server
DeleteServer ==
    /\ last = Idle
    /\ \E session_id \in SessionIdPool, user_id \in Users, db_ok \in BOOLEAN :
          \E out \in {delete_server(session_id, user_id, State, db_ok)} :
              /\ SetState(out.st)
              /\ last' = [op |-> "delete_server", session_id |-> session_id,
                          user_id |-> user_id, db_ok |-> db_ok,
                          before |-> State, response |-> out.response]
    /\ UNCHANGED <<auth_cache, entry, now>>

NextServers ==
    CreateServer \/ LoadServer \/ GetAllServers \/ DeleteServer \/ ColdStart \/ Return

SpecServers == Init /\ [][NextServers]_vars

UncachedResponse ==
    load_server(last.session_id, last.user_id, last.event,
                [last.before EXCEPT !.active_handlers[last.session_id] = NoHandler],
                last.random_part, last.db_ok, NoBlobNoScript).response

\* C19: for every session id, user id, request and state of the store,
\* load_server returns the same response whether or not an engine of the
\* session is in active_handlers: the existence check and the ownership check
\* come out the same on a cache hit as on a cache miss (here with the store
\* answering).
C19_CacheTransparent ==
    (last.op = "load_server" /\ last.db_ok) => last.response = UncachedResponse

\* the request the router served is a DELETE of session s by the tenant that
\* owns it, with the store answering
DeleteByOwner(s) ==
    /\ last.op = "router"
    /\ last.handler = "handle_server_deletion"
    /\ last.db_ok
    /\ parse_path(last.event.path).extracted_session_id = s
    /\ last.before.store[s].present
    /\ LET auth_context == extract_auth_context(last.event)
       IN  /\ auth_context.token_type = COGNITO
           /\ auth_context.user_id = last.before.store[s].user_id

\* C20: a tenant's delete destroys the session: for every existing session
\* owned by tenant U, a DELETE request authenticated as U and routed through
\* handle_server_deletion removes the session's record from the store and
\* its engine from the cache.
C20_DeleteDestroysSession ==
    \A s \in SessionIdPool :
        DeleteByOwner(s) => (~store[s].present /\ ~InHandlers(active_handlers, s))

----------------------------------------------------------------------------
(* The agent token over time, under SpecExpiry: servers are created, their *)
(* status is updated, they are deleted, the clock advances and tokens are  *)
(* verified.                                                               *)

NextExpiry ==
    CreateServer \/ UpdateSession \/ DeleteServer \/ Tick \/ ValidateM2MToken \/ Return

SpecExpiry == Init /\ [][NextExpiry]_vars

\* the token verified is the one issued for the session, which is stored
\* and active, and the table answers
IssuedTokenVerified ==
    /\ last.op = "validate_m2m_token"
    /\ last.db_ok
    /\ last.session_id \in SessionIdPool
    /\ store[last.session_id].present
    /\ store[last.session_id].status = ACTIVE
    /\ store[last.session_id].m2m_token = last.token

\* C21: the verification of an agent token does not depend on the time or on
\* the session's expires_at: for a session that is stored and active, the
\* issued token verifies at every moment, also after expires_at has passed.
C21_TokenVerifiesForever ==
    IssuedTokenVerified => last.user_id = store[last.session_id].user_id

\* the issued token was verified after the session's expires_at
C21_Witness ==
    /\ IssuedTokenVerified
    /\ now > store[last.session_id].expires_at
    /\ last.user_id = store[last.session_id].user_id

----------------------------------------------------------------------------
(* Claims on the responses of the router and the protocol engine, under    *)
(* SpecRouter.                                                             *)

\* the response the served request was answered with
Answer == IF last.op = "handle_request" THEN last.rpc.response ELSE last.response

Answered == last.op \in {"router", "handle_request"}

ClassifiedCodes == {-32700, -32600, -32601, -32602, -32603}

HttpStatuses == {200, 201, 202, 400, 401, 403, 404, 500}

\* C22: for every event the router and handle_request return a well-formed
\* response, and every JSON-RPC error envelope they emit carries one of the
\* classified codes -32700, -32600, -32601, -32602, -32603.
C22_ClassifiedErrors ==
    Answered =>
        /\ Answer.statusCode \in HttpStatuses
        /\ Answer.body.kind = "rpc_error" => Answer.body.code \in ClassifiedCodes

\* the response of the protocol engine, when the request reached it
EngineAnswer == last.rpc.response

\* C23: for every error response of the protocol engine the HTTP status is
\* determined by the JSON-RPC code of its body: -32700, -32600 and -32602
\* give 400, -32601 gives 404, -32603 and every other code give 500; every
\* success response has status 200 and carries a result and no error.
C23_StatusFromCode ==
    Answered =>
        /\ EngineAnswer.body.kind = "rpc_error" =>
               EngineAnswer.statusCode =
                   (IF EngineAnswer.body.code \in {-32700, -32600, -32602} THEN 400
                    ELSE IF EngineAnswer.body.code = -32601 THEN 404
                    ELSE 500)
        /\ EngineAnswer.body.kind = "rpc_result" =>
               /\ EngineAnswer.statusCode = 200
               /\ "result" \in DOMAIN EngineAnswer.body
               /\ "code" \notin DOMAIN EngineAnswer.body

\* the engine answered an unknown tool with -32601 and 404
C23_Witness ==
    /\ Answered
    /\ EngineAnswer.body.kind = "rpc_error"
    /\ EngineAnswer.body.code = -32601
    /\ EngineAnswer.statusCode = 404

\* the engine handled a tools/call request (a JSON-RPC 2.0 object with an id,
\* sent as application/json) whose params is absent or empty
CallWithoutParams ==
    /\ Answered
    /\ InCalls("handle_request")
    /\ last.event.headers = JsonHeaders
    /\ last.event.body.kind = "json"
    /\ IsDict(last.event.body.value)
    /\ HasKey(last.event.body.value, "id")
    /\ Get(last.event.body.value, "jsonrpc") = <<"2.0">>
    /\ Get(last.event.body.value, "method") = <<"tools/call">>
    /\ ~ParamsTruthy(last.event.body.value)

\* C25: a tools/call request is processed as a tool call only when it carries
\* params: one whose params is absent or empty executes no tool function and
\* is answered with an error envelope that echoes the request id, never with
\* a success result.
C25_CallNeedsParams ==
    CallWithoutParams =>
        /\ EngineAnswer.body.kind = "rpc_error"
        /\ EngineAnswer.body.id = Get(last.event.body.value, "id")
        /\ last.rpc.executed = None

\* a tools/call with params {} was answered with the error of an unknown method
C25_Witness ==
    /\ CallWithoutParams
    /\ HasKey(last.event.body.value, "params")
    /\ EngineAnswer.body.kind = "rpc_error"
    /\ EngineAnswer.body.code = -32601

----------------------------------------------------------------------------
(* src/server/mcp_server/handlers/output_handler.py: the variables a       *)
(* script is given, under SpecBinding.  A name and a string are sequences  *)
(* of one-character symbols; a declaration is [name, js]: var name = js;   *)

\* the symbols of the model that the class [a-zA-Z0-9_] matches
WordSymbols == {"a", "b", "1", "_"}

\* re.sub(r'[^a-zA-Z0-9_]', '_', str(param_name))
safe_var_name(param_name) ==
    [i \in 1..Len(param_name) |->
        IF param_name[i] \in WordSymbols THEN param_name[i] ELSE "_"]

\* param_value.replace('"', '\\"').replace("'", "\\'")
RECURSIVE escaped_value(_)
escaped_value(text) ==
    IF text = <<>> THEN <<>>
    ELSE (IF Head(text) \in {"\"", "'"} THEN <<"\\", Head(text)>> ELSE <<Head(text)>>)
             \o escaped_value(Tail(text))

\* the chain of isinstance tests of lines 277-288: str, then (int, float),
\* of which bool is a subclass, then bool, then None
js_value(param_value) ==
    IF param_value.t = "str" THEN <<"\"">> \o escaped_value(param_value.v) \o <<"\"">>
    ELSE IF param_value.t = "num" THEN <<param_value.v>>
    ELSE IF param_value.t = "bool" THEN (IF param_value.v THEN <<"True">> ELSE <<"False">>)
    ELSE <<"null">>

\* OutputHandler._create_parameter_variables: one declaration per item of
\* the dict, in its order
_create_parameter_variables(parameters) ==
    [i \in 1..Len(parameters) |->
        [name |-> safe_var_name(parameters[i][1]), js |-> js_value(parameters[i][2])]]

\* What the interpreter makes of the declarations.
JsError == [t |-> "error"]

\* a string literal from position i on, acc being what was read: a backslash
\* takes the next character as it is, the double quote ends the literal
RECURSIVE JsScanString(_, _, _)
JsScanString(text, i, acc) ==
    IF i > Len(text) THEN JsError
    ELSE IF text[i] = "\"" THEN (IF i = Len(text) THEN PyStr(acc) ELSE JsError)
    ELSE IF text[i] = "\\"
    THEN (IF i + 1 > Len(text) THEN JsError
          ELSE JsScanString(text, i + 2, Append(acc, text[i + 1])))
    ELSE JsScanString(text, i + 1, Append(acc, text[i]))

\* the value of the expression a declaration assigns
JsValue(text) ==
    IF text = <<>> THEN JsError
    ELSE IF text[1] = "\"" THEN JsScanString(text, 2, <<>>)
    ELSE IF text = <<"true">> THEN PyBool(TRUE)
    ELSE IF text = <<"false">> THEN PyBool(FALSE)
    ELSE IF text = <<"null">> THEN PyNone
    ELSE IF Len(text) = 1 /\ text[1] \in NumberSymbols THEN PyNum(text[1])
    ELSE JsError

\* IdentifierName: not empty, no digit first, word symbols only
ValidIdentifier(name) ==
    /\ name # <<>>
    /\ name[1] \notin {"1"}
    /\ \A i \in 1..Len(name) : name[i] \in WordSymbols

ArgumentNames ==
    {<<c>> : c \in {"a", "b", "1", "_", " ", "-"}}
    \cup {<<c, d>> : c \in {"a", "1"}, d \in {"b", " ", "_"}}

ArgumentValues ==
    {PyStr(<<>>), PyStr(<<"a">>), PyStr(<<"\"">>), PyStr(<<"'">>), PyStr(<<"\\">>),
     PyStr(<<"a", "\\">>), PyNum("1"), PyNum("42"), PyBool(TRUE), PyBool(FALSE), PyNone}

\* the argument maps: a dict has each key once
ArgumentMaps ==
    {<<>>}
    \cup {<< <<n, v>> >> : n \in ArgumentNames, v \in ArgumentValues}
    \cup {<< <<nm[1], v>>, <<nm[2], PyNum("1")>> >> :
             nm \in {p \in ArgumentNames \X ArgumentNames : p[1] # p[2]},
             v \in {PyStr(<<"a">>), PyNone}}

CreateParameterVariables ==
    /\ last = Idle
    /\ \E parameters \in ArgumentMaps :
          last' = [op |-> "_create_parameter_variables", parameters |-> parameters,
                   declarations |-> _create_parameter_variables(parameters)]
    /\ UNCHANGED <<store, active_handlers, issued_ids, auth_cache, entry, now>>

NextBinding == CreateParameterVariables \/ Return

SpecBinding == Init /\ [][NextBinding]_vars

\* C26: for every argument map of a Script tool call, each argument is
\* declared to the script as a variable whose name is a valid identifier
\* derived from the argument name and whose value in the script equals the
\* value of the argument, and two different argument names are never bound to
\* the same variable.
C26_ArgumentsBound ==
    last.op = "_create_parameter_variables" =>
        /\ \A i \in 1..Len(last.parameters) :
              /\ ValidIdentifier(last.declarations[i].name)
              /\ JsValue(last.declarations[i].js) = last.parameters[i][2]
        /\ \A i, j \in 1..Len(last.parameters) :
              i # j => last.declarations[i].name # last.declarations[j].name

----------------------------------------------------------------------------
(* Claims on create_server, under SpecServers.                             *)

\* C27: a create_server whose request fails validation (a name or a
\* description left out or empty, no tool, an output type outside text, image
\* and custom, an output content without the field of its type) is answered
\* 400 with the field errors, and leaves the store, the cache of engines and
\* the ids drawn as they were.
C27_InvalidCreateRejected ==
    [][(last'.op = "create_server" /\ last'.request \in {r.members : r \in InvalidServerRequests}
            \cup {r.members : r \in {q \in ServerRequests : q.members.tools = <<>>}})
       => /\ last'.response.statusCode = 400
          /\ last'.response.body.error = "Validation failed"
          /\ last'.response.body.details # {}
          /\ UNCHANGED <<store, active_handlers, issued_ids>>]_vars

C27_Witness ==
    /\ last.op = "create_server"
    /\ last.request \in {r.members : r \in InvalidServerRequests}
    /\ last.response.statusCode = 400
    /\ FieldError("tools.output.output_content", 2) \in last.response.body.details
    /\ \E s \in SessionIdPool : store[s].present

\* MCPServerHandler.create_server with the id TokenGenerator.generate_id
\* returns: secrets.token_urlsafe(12)[:12] is drawn without a look at the
\* store, and put_item has no condition
CreateServerDrawn ==
    /\ last = Idle
    /\ \E user_id \in Users, request \in ServerRequests, db_ok \in BOOLEAN,
          new_id \in SessionIdPool, random_part \in RandomParts :
          \E out \in {create_server(request.members, user_id, State,
                                     new_id, random_part, db_ok)} :
              /\ SetState(out.st)
              /\ last' = [op |-> "create_server", user_id |-> user_id,
                          request |-> request.members, response |-> out.response]
    /\ UNCHANGED <<auth_cache, entry, now>>

NextCreate == CreateServerDrawn \/ DeleteServer \/ Return

SpecCreate == Init /\ [][NextCreate]_vars

\* C28: for every sequence of create_server calls, each successful call adds
\* exactly one session record, under a session id that was not in the store,
\* and leaves every record that was in the store as it was.
C28_CreateOnlyAdds ==
    [][(last'.op = "create_server" /\ last'.response.statusCode = 201)
       => \E s \in SessionIdPool :
             /\ ~store[s].present
             /\ store'[s].present
             /\ \A t \in SessionIdPool \ {s} : store'[t] = store[t]]_vars

----------------------------------------------------------------------------
(* The authorizer and the router on the path of a tool invocation, under   *)
(* Spec.                                                                   *)

\* the ARN the gateway hands the authorizer for the request in last
LastArn == ApiArn \o <<"/">> \o <<"prod">> \o <<"/">> \o last.method \o last.path

\* the authorizer read a session id from the path and granted an agent
AgentGrantedOnPath ==
    /\ last.op = "request"
    /\ ~last.grant.out.raised
    /\ last.grant.out.context.tokenType = M2M
    /\ extract_session_id_from_arn(LastArn) # None

\* C29: every GET or POST on a path from which the authorizer extracts a
\* session id and for which it grants an agent (a path holding
\* servers/<id>/mcp) is resolved by parse_path and the route table to the
\* handler of tool invocations with the same session id, never to no handler
\* and never to another session id.
C29_PathsAgree ==
    AgentGrantedOnPath =>
        /\ get_handler(parse_path(last.path).resource, last.method,
                       parse_path(last.path).is_mcp) = "handle_mcp_server_access"
        /\ parse_path(last.path).extracted_session_id = extract_session_id_from_arn(LastArn)

----------------------------------------------------------------------------
(* Calls of load_server and create_server that run at the same time in one *)
(* process, under SpecConcurrent.  While they run, last holds the          *)
(* module-level _LazyHandler (instance: the position in caches of the      *)
(* MCPServerHandler it holds, 0 for None), the active_handlers of every    *)
(* MCPServerHandler made (caches) and, per thread, the call and the        *)
(* statement it is at (pc).                                                *)

Threads == {1, 2}

EmptyCache == [s \in SessionIdPool |-> NoHandler]

Call(kind, session_id, user_id, request, random_part, db_ok) ==
    [kind |-> kind, pc |-> "getattr", inst |-> 0, session_id |-> session_id,
     user_id |-> user_id, request |-> request, random_part |-> random_part,
     db_ok |-> db_ok, session |-> Absent, handler |-> NoHandler, status |-> 0]

\* the calls that can run together: load_server calls for one session, or a
\* load_server and a create_server, whose id is a new one
ConcurrentCalls ==
    {[t \in Threads |-> IF t = 1 THEN c1 ELSE c2] :
        c1 \in {Call("load", s, u, <<>>, r, TRUE) :
                   s \in SessionIdPool, u \in Users, r \in RandomParts},
        c2 \in {Call("load", s, u, <<>>, <<"r1">>, ok) :
                   s \in SessionIdPool, u \in Users, ok \in BOOLEAN}
               \cup {Call("create", i, <<"u1">>, q.members, <<"r2">>, ok) :
                        i \in SessionIdPool \ issued_ids, q \in ServerRequests,
                        ok \in BOOLEAN}}

\* the step of thread t that takes its call to the record c
Step(t, c) == [last EXCEPT !.threads[t] = c]

At(t, kind, pc) ==
    /\ last # Idle
    /\ last.op = "concurrent"
    /\ last.threads[t].kind = kind
    /\ last.threads[t].pc = pc

ConcurrentStart ==
    /\ last = Idle
    /\ \E calls \in ConcurrentCalls, made \in BOOLEAN :
          /\ made \/ active_handlers = EmptyCache
          /\ \A t, u \in Threads :
                (calls[t].kind = "load" /\ calls[u].kind = "load")
                    => calls[t].session_id = calls[u].session_id
          /\ last' = [op |-> "concurrent", instance |-> IF made THEN 1 ELSE 0,
                      caches |-> IF made THEN <<active_handlers>> ELSE <<>>,
                      threads |-> calls]
    /\ UNCHANGED <<store, active_handlers, issued_ids, auth_cache, entry, now>>

\* _LazyHandler.__getattr__, line 45: if self._instance is None
LazyCheck ==
    /\ \E t \in Threads, kind \in {"load", "create"} :
          /\ At(t, kind, "getattr")
          /\ last' = Step(t, [last.threads[t] EXCEPT
                                 !.pc = IF last.instance = 0 THEN "factory" ELSE "bind"])
    /\ UNCHANGED <<store, active_handlers, issued_ids, auth_cache, entry, now>>

\* line 46: self._instance = self._handler_factory(), a new MCPServerHandler
\* with an empty active_handlers
LazyAssign ==
    /\ \E t \in Threads, kind \in {"load", "create"} :
          /\ At(t, kind, "factory")
          /\ last' = [Step(t, [last.threads[t] EXCEPT !.pc = "bind"])
                         EXCEPT !.caches = Append(last.caches, EmptyCache),
                                !.instance = Len(last.caches) + 1]
    /\ UNCHANGED <<store, active_handlers, issued_ids, auth_cache, entry, now>>

\* line 47: return getattr(self._instance, name), the method bound to the
\* MCPServerHandler the field holds now
LazyBind ==
    /\ \E t \in Threads, kind \in {"load", "create"} :
          /\ At(t, kind, "bind")
          /\ last' = Step(t, [last.threads[t] EXCEPT !.inst = last.instance, !.pc = "enter"])
    /\ UNCHANGED <<store, active_handlers, issued_ids, auth_cache, entry, now>>

\* load_server, line 79: if session_id not in self.active_handlers, and
\* line 99 when it is there
LoadCheck ==
    /\ \E t \in Threads :
          /\ At(t, "load", "enter")
          /\ \E c \in {last.threads[t]} :
                last' = Step(t, IF InHandlers(last.caches[c.inst], c.session_id)
                                THEN [c EXCEPT !.handler = last.caches[c.inst][c.session_id],
                                               !.pc = "serve"]
                                ELSE [c EXCEPT !.pc = "read"])
    /\ UNCHANGED <<store, active_handlers, issued_ids, auth_cache, entry, now>>

\* lines 81-89: get_session, not found, not the owner's
LoadRead ==
    /\ \E t \in Threads :
          /\ At(t, "load", "read")
          /\ \E c \in {last.threads[t]} :
             \E session \in {IF c.db_ok THEN GetItem(store, c.session_id) ELSE Absent} :
                last' = Step(t, IF ~session.present
                                THEN [c EXCEPT !.status = 404, !.pc = "done"]
                                ELSE IF session.user_id # c.user_id
                                THEN [c EXCEPT !.status = 403, !.pc = "done"]
                                ELSE [c EXCEPT !.session = session, !.pc = "build"])
    /\ UNCHANGED <<store, active_handlers, issued_ids, auth_cache, entry, now>>

\* lines 92-97: recreate_handler_from_session and
\* self.active_handlers[session_id] = mcp_handler
LoadBuild ==
    /\ \E t \in Threads :
          /\ At(t, "load", "build")
          /\ \E c \in {last.threads[t]} :
                IF ~ValidRequest(c.session)
                THEN last' = Step(t, [c EXCEPT !.status = 500, !.pc = "done"])
                ELSE \E mcp_handler \in {create_server_data(c.session, c.user_id, c.session_id,
                                                            c.random_part, now).mcp_handler} :
                        last' = [Step(t, [c EXCEPT !.handler = mcp_handler, !.pc = "serve"])
                                    EXCEPT !.caches[c.inst][c.session_id] = mcp_handler]
    /\ UNCHANGED <<store, active_handlers, issued_ids, auth_cache, entry, now>>

\* line 102: return handler.handle_request(event, context)
LoadServe ==
    /\ \E t \in Threads :
          /\ At(t, "load", "serve")
          /\ \E c \in {last.threads[t]} :
             \E rpc \in {handle_request(c.handler,
                                        Event(McpPath(<<"server">>, c.session_id), <<"POST">>,
                                              PingPayload, AuthorizerMissing),
                                        NoBlobNoScript)} :
                last' = Step(t, [c EXCEPT !.status = rpc.response.statusCode, !.pc = "done"])
    /\ UNCHANGED <<store, active_handlers, issued_ids, auth_cache, entry, now>>

\* create_server: the statement after pc; the put of line 51 raising takes
\* the call to the except clause of line 61
create_server_pc(pc, valid, db_ok) ==
    CASE pc = "enter" -> IF valid THEN "put" ELSE "invalid"
      [] pc = "put" -> IF db_ok THEN "cache" ELSE "failed"
      [] pc = "cache" -> "created"

\* the status create_server answers with
CreateStatus(pc) ==
    CASE pc = "invalid" -> 400
      [] pc = "failed" -> 500
      [] pc = "created" -> 201
      [] OTHER -> 0

\* what of the call is left at the statement pc
Created(c, pc, mcp_handler) ==
    [c EXCEPT !.status = CreateStatus(pc), !.handler = mcp_handler,
              !.pc = IF CreateStatus(pc) = 0 THEN pc ELSE "done"]

\* lines 41-46: MCPServerRequest(**request_data), and create_server_data,
\* which draws the id
CreateValidate ==
    /\ \E t \in Threads :
          /\ At(t, "create", "enter")
          /\ \E c \in {last.threads[t]} :
             \E pc \in {create_server_pc("enter", ValidRequest(c.request), c.db_ok)} :
                /\ c.session_id \notin issued_ids \/ pc = "invalid"
                /\ issued_ids' = IF pc = "invalid" THEN issued_ids
                                 ELSE issued_ids \cup {c.session_id}
                /\ last' = Step(t, Created(c, pc,
                                   IF pc = "invalid" THEN NoHandler
                                   ELSE create_server_data(c.request, c.user_id, c.session_id,
                                                           c.random_part, now).mcp_handler))
    /\ UNCHANGED <<store, active_handlers, auth_cache, entry, now>>

\* line 51: self.db_service.create_session(server_data)
CreatePut ==
    /\ \E t \in Threads :
          /\ At(t, "create", "put")
          /\ \E c \in {last.threads[t]} :
                /\ store' = IF c.db_ok
                            THEN PutItem(store, c.session_id,
                                         create_server_data(c.request, c.user_id, c.session_id,
                                                            c.random_part, now).server_data)
                            ELSE store
                /\ last' = Step(t, Created(c, create_server_pc("put", TRUE, c.db_ok), c.handler))
    /\ UNCHANGED <<active_handlers, issued_ids, auth_cache, entry, now>>

\* line 54: self.active_handlers[session_id] = mcp_handler
CreateCache ==
    /\ \E t \in Threads :
          /\ At(t, "create", "cache")
          /\ \E c \in {last.threads[t]} :
                last' = [Step(t, Created(c, create_server_pc("cache", TRUE, c.db_ok), c.handler))
                            EXCEPT !.caches[c.inst][c.session_id] = c.handler]
    /\ UNCHANGED <<store, active_handlers, issued_ids, auth_cache, entry, now>>

AllDone == \A t \in Threads : last.threads[t].pc = "done"

\* every call has returned: the process goes on with the MCPServerHandler
\* the module holds
ConcurrentEnd ==
    /\ last # Idle
    /\ last.op = "concurrent"
    /\ AllDone
    /\ active_handlers' = last.caches[last.instance]
    /\ last' = [op |-> "concurrent_done", threads |-> last.threads]
    /\ UNCHANGED <<store, issued_ids, auth_cache, entry, now>>

NextConcurrent ==
    \/ CreateServer \/ ColdStart \/ ConcurrentStart
    \/ LazyCheck \/ LazyAssign \/ LazyBind
    \/ LoadCheck \/ LoadRead \/ LoadBuild \/ LoadServe
    \/ CreateValidate \/ CreatePut \/ CreateCache
    \/ ConcurrentEnd \/ Return

SpecConcurrent == Init /\ [][NextConcurrent]_vars

\* the engine compiled from the stored tool definitions of session s
Compiled(s) ==
    create_server_data(store[s], store[s].user_id, s, <<"r1">>, now).mcp_handler

Running == last # Idle /\ last.op = "concurrent"

\* C30: under any interleaving of load_server calls for one session on a
\* cold cache, and of load_server with create_server for another session,
\* every call that is served is served by an engine equal to the one compiled
\* from the stored tool definitions, the cache ends with one engine for the
\* session, equal to it, and every session id in a cache is the id of a
\* stored record.
C30_ConcurrentLoads ==
    Running =>
        /\ \A t \in Threads :
              LET c == last.threads[t] IN
              (c.kind = "load" /\ c.pc \in {"serve", "done"} /\ c.handler # NoHandler)
                  => /\ store[c.session_id].present
                     /\ c.handler = Compiled(c.session_id)
        /\ (AllDone /\ \E t \in Threads :
                          last.threads[t].kind = "load" /\ last.threads[t].status = 200)
              => \A t \in Threads :
                    (last.threads[t].kind = "load" /\ last.threads[t].status = 200)
                        => last.caches[last.instance][last.threads[t].session_id]
                               = Compiled(last.threads[t].session_id)
        /\ \A k \in 1..Len(last.caches) : \A s \in SessionIdPool :
              last.caches[k][s] # NoHandler => store[s].present

====
